---- MODULE Spec2Model ----
(***************************************************************************)
(* Job enrichment and resume-matching pipeline of linkedinautomation:      *)
(* the match scoring engine (services/resume_matcher.py), the analysis     *)
(* cache and the primary store (database/db_manager.py) and the external   *)
(* log (services/google_sheets_service.py).                                *)
(*                                                                         *)
(* Strings are TLA+ strings; Python's str.lower, str.join, slicing and the *)
(* substring test `a in b` are computed character by character.            *)
(* Scores are Python floats; they are held as exact integer multiples of   *)
(* 1/ScoreScale percent.                                                   *)
(***************************************************************************)
EXTENDS Integers, Sequences, FiniteSets, TLC

VARIABLES
    \* ---- match scoring engine (ResumeMatcherService), one analyze_job_fit call ----
    job,              \* the JobListing object handed to analyze_job_fit (mutated in place)
    job_before,       \* the same JobListing as it was when the call started
    resume_profile,   \* ResumeMatcherService.resume_profile
    groq_client,      \* TRUE iff settings.groq_api_key configured a Groq client
    pc,               \* where the call is: start, groq, openai, basic, update, returned, raised
    job_context,      \* local job_context
    analysis,         \* local analysis (the JobAnalysis a tier produced)
    groq_response,    \* what the Groq service answered in this call
    openai_response,  \* what the OpenAI service answered in this call
    calls,            \* the tiers invoked by this call, in invocation order
    \* ---- analysis cache (DatabaseManager.cache_analysis / get_cached_analysis) ----
    analysis_cache,   \* the rows of table analysis_cache, in insertion order
    now,              \* datetime.utcnow(), in hours
    callers,          \* per caller: where its cache_analysis call is, and its locals
    last_get,         \* the last get_cached_analysis call and its answer
    last_write,       \* per key: the last committed cache_analysis call
    \* ---- primary store (DatabaseManager.add_job) ----
    jobs,             \* the rows of table jobs, in insertion order
    runs,             \* per search run: where its add_job call is, and its locals
    last_add,         \* the last add_job call of the single run and its outcome
    added,            \* the job_ids for which an add_job call returned a record
    \* ---- external log (GoogleSheetsService) ----
    service,          \* TRUE iff self.service was built
    sheet,            \* the rows of the spreadsheet, header row first
    appended,         \* per appended row: the job_id of the JobListing it came from
    sheet_result,     \* how the last add_job / add_jobs_batch call of the log ended
    sheet_call,       \* the last call on the log: its arguments and what it found
    \* ---- one search run (perform_job_search) ----
    search,           \* where the run is, its parameters and locals, the services
    search_run,       \* the SearchRun row of the run
    processed,        \* the record the loop handled last: what was done with it
    job_card,         \* extraction: what the card of a posting shows
    detail_panel,     \* extraction: what the page shows for the posting
    extracted_job,    \* extraction: the job_data dict made of them
    match,            \* extraction: the outcome of scoring the job
    \* ---- cleanup_old_data ----
    last_sweep,       \* the last cleanup_old_data call: when it ran, what it deleted
    \* ---- one call of the parsers of a posting's text ----
    posting_text,     \* the text of the posting handed to the parser
    parse_result,     \* what the call computed and how it ended
    \* ---- the scoring pass of a run and PUT /api/profile on one event loop ----
    profile_task      \* the global matcher service, the run's position, the profiles used

matcherVars == <<job, job_before, resume_profile, groq_client, pc, job_context,
                 analysis, groq_response, openai_response, calls>>

cacheVars == <<analysis_cache, now, callers, last_get, last_write>>

storeVars == <<jobs, runs, last_add, added>>

sheetVars == <<service, sheet, appended, sheet_result, sheet_call>>

runVars == <<search, search_run, processed>>
extractVars == <<job_card, detail_panel, extracted_job, match>>

laterVars == <<last_sweep, posting_text, parse_result, profile_task>>

vars == <<matcherVars, cacheVars, storeVars, sheetVars, runVars, extractVars, laterVars>>

----------------------------------------------------------------------------
(* Bounds of the model *)

MaxJobWords == 3       \* words in a job description
MaxResumeWords == 3    \* words in a resume text
MaxKnownSkills == 1    \* entries in ResumeProfile.skills
MaxTime == 24          \* hours the clock runs
MaxCallsPerCaller == 1 \* cache_analysis calls of each concurrent caller
MaxAddsPerRun == 2     \* add_job calls of each concurrent search run
MaxRows == 3           \* rows appended to the spreadsheet
MaxBatch == 2          \* JobListings in one add_jobs_batch call
MaxRecords == 2        \* records the scraper returns to one search run
MaxLines == 2          \* lines of a short posting text
MaxBullets == 6        \* lines in each section of a long posting text
MaxYears == 14         \* years of experience a posting asks for

----------------------------------------------------------------------------
(* Python values *)

None == "None"         \* None in a str-typed Optional field
NoScore == <<>>        \* None in Optional[float]; a present score v is <<v>>
NoLevel == <<>>        \* None in Optional[int]; a present level n is <<n>>

ScoreScale == 840      \* a float percentage p is held as p * 840 (840 = lcm(1..8))

Pct(p) == p * ScoreScale

Min(a, b) == IF a < b THEN a ELSE b

----------------------------------------------------------------------------
(* Python string operations *)

UpperAlphabet == "ABCDEFGHIJKLMNOPQRSTUVWXYZ"
LowerAlphabet == "abcdefghijklmnopqrstuvwxyz"

\* str.lower() of a one-character string
ToLower ==
    [c \in { SubSeq(UpperAlphabet, i, i) : i \in 1..Len(UpperAlphabet) } |->
        LET i == CHOOSE k \in 1..Len(UpperAlphabet) : SubSeq(UpperAlphabet, k, k) = c
        IN  SubSeq(LowerAlphabet, i, i)]

LowerChar(c) == IF c \in DOMAIN ToLower THEN ToLower[c] ELSE c

\* str.lower(): every character lowered (computed by halves)
RECURSIVE lower(_)
lower(s) ==
    IF Len(s) = 0 THEN ""
    ELSE IF Len(s) = 1 THEN LowerChar(s)
    ELSE LET half == Len(s) \div 2
         IN  lower(SubSeq(s, 1, half)) \o lower(SubSeq(s, half + 1, Len(s)))

\* Python's substring test: sub in s
In(sub, s) ==
    \E i \in 1..(Len(s) - Len(sub) + 1) : SubSeq(s, i, i + Len(sub) - 1) = sub

\* sep.join(list)
RECURSIVE join(_, _)
join(sep, list) ==
    IF list = <<>> THEN ""
    ELSE IF Len(list) = 1 THEN list[1]
    ELSE list[1] \o sep \o join(sep, Tail(list))

\* s[:n]
Prefix(s, n) == SubSeq(s, 1, Min(Len(s), n))

\* x in list, for a Python list
InList(x, list) == \E i \in 1..Len(list) : list[i] = x

----------------------------------------------------------------------------
(* models/job_model.py *)

\* JobListing(job_id=..., title=..., company=..., location=..., ...): the fields
\* not given take the defaults the model declares.
JobListing(job_id, title, description, requirements) ==
    [job_id |-> job_id, title |-> title, company |-> "Tech Corp",
     location |-> "Remote", url |-> None,
     description |-> description, requirements |-> requirements,
     qualifications |-> <<>>, responsibilities |-> <<>>, benefits |-> <<>>,
     job_type |-> None, experience_level |-> None, level |-> NoLevel,
     salary_range |-> None, employment_type |-> None,
     industry |-> None, company_size |-> None,
     posted_date |-> None, application_deadline |-> None,
     applicants_count |-> None,
     scraped_at |-> [year |-> 2026, month |-> 1, day |-> 15,
                     hour |-> 9, minute |-> 30, second |-> 0],
     source |-> "LinkedIn", status |-> "new",
     keywords |-> <<>>, skills |-> <<>>, resume_match_score |-> NoScore,
     match_reasons |-> <<>>, notes |-> None, tags |-> <<>>]

\* Field(..., ge=0, le=100) on the three scores of JobAnalysis
ScoreInRange(v) == v >= 0 /\ v <= Pct(100)

\* Mutant: a JobAnalysis that takes any score.
NewJobAnalysisUnchecked(fields) == [raised |-> FALSE, analysis |-> fields]

\* Mutant: a JobAnalysis that clamps its scores into [0, 100].
Clamp(v) == IF v < 0 THEN 0 ELSE IF v > Pct(100) THEN Pct(100) ELSE v

NewJobAnalysisClamped(fields) ==
    [raised |-> FALSE,
     analysis |-> [fields EXCEPT !.overall_match_score = Clamp(@),
                                 !.skills_match_score = Clamp(@),
                                 !.experience_match_score = Clamp(@)]]

\* JobAnalysis(**fields): pydantic validates on construction and raises
\* ValidationError when a score is outside [0, 100].
NewJobAnalysis(fields) ==
    IF /\ ScoreInRange(fields.overall_match_score)
       /\ ScoreInRange(fields.skills_match_score)
       /\ ScoreInRange(fields.experience_match_score)
    THEN [raised |-> FALSE, analysis |-> fields]
    ELSE [raised |-> TRUE]

----------------------------------------------------------------------------
(* services/resume_matcher.py *)

ResumeContextLimit == 3000

tech_keywords == <<"python", "java", "javascript", "react", "sql", "aws",
                   "docker", "kubernetes">>
soft_keywords == <<"communication", "leadership", "teamwork", "problem-solving">>

\* ResumeProfile(resume_text=..., skills=...) with no resume file and no
\* settings.user_skills configured
ResumeProfile(resume_text, skills) ==
    [resume_text |-> resume_text, skills |-> skills]

\* The f-string of _prepare_job_context (the indentation of its lines dropped).
prepare_job_context(j, profile) ==
    "JOB DETAILS:\nTitle: " \o j.title
    \o "\nCompany: " \o j.company
    \o "\nLocation: " \o j.location
    \o "\nType: " \o (IF j.job_type /= None THEN j.job_type ELSE "Not specified")
    \o "\nExperience Level: "
    \o (IF j.experience_level /= None THEN j.experience_level ELSE "Not specified")
    \o "\nDescription:\n" \o j.description
    \o "\nRequirements:\n" \o join(", ", j.requirements)
    \o "\nQualifications:\n" \o join(", ", j.qualifications)
    \o "\nResponsibilities:\n" \o join(", ", j.responsibilities)
    \o "\nCANDIDATE PROFILE:\nResume:\n"
    \o Prefix(profile.resume_text, ResumeContextLimit)
    \o "  # Limit to 3000 chars\nKnown Skills:\n"
    \o join(", ", profile.skills) \o "\n"

\* The deterministic heuristic scorer.
create_basic_analysis(context, profile) ==
    LET job_lower == lower(context)
        technical_skills == SelectSeq(tech_keywords, LAMBDA skill : In(skill, job_lower))
        soft_skills == SelectSeq(soft_keywords, LAMBDA skill : In(skill, job_lower))
        resume_lower == lower(profile.resume_text)
        matching_skills == SelectSeq(technical_skills, LAMBDA skill : In(skill, resume_lower))
        match_percentage ==
            IF technical_skills /= <<>>
            THEN (Len(matching_skills) * Pct(100)) \div Len(technical_skills)
            ELSE Pct(50)
    IN  NewJobAnalysis(
          [job_id |-> Prefix(context, 50),
           technical_skills |-> technical_skills,
           soft_skills |-> soft_skills,
           tools_technologies |-> technical_skills,
           certifications |-> <<>>,
           overall_match_score |-> match_percentage,
           skills_match_score |-> match_percentage,
           experience_match_score |-> Pct(50),
           missing_skills |->
               SelectSeq(technical_skills, LAMBDA s : ~InList(s, matching_skills)),
           matching_skills |-> matching_skills,
           recommendations |-> <<"Review job requirements carefully",
                                 "Tailor your resume to match">>,
           ai_summary |-> "Job analysis unavailable",
           ai_fit_assessment |-> "Basic analysis only",
           interview_tips |-> <<"Research the company",
                                "Prepare examples of your work">>])

\* self.openai_client = OpenAI(api_key=...): always constructed
openai_client == TRUE

\* What a provider call can give: the call raises (transport error), the
\* completion holds no JSON object, or it holds a JSON object; a key of the
\* object is <<>> when absent and <<value>> when present.
NotCalled == [kind |-> "not_called"]
TransportError == [kind |-> "error"]
Unparseable == [kind |-> "text"]

JsonObject(overall, skills, experience, technical, soft, summary) ==
    [kind |-> "json",
     overall_match_score |-> overall, skills_match_score |-> skills,
     experience_match_score |-> experience,
     technical_skills |-> technical, soft_skills |-> soft,
     ai_summary |-> summary]

\* dict.get(key, default)
Get(entry, default) == IF entry = <<>> THEN default ELSE entry[1]

\* The JobAnalysis(...) call of both AI tiers, from the parsed JSON object.
\* (float(x) of the Groq tier is the identity on the numbers modelled.)
AnalysisFromResult(context, result) ==
    NewJobAnalysis(
      [job_id |-> Prefix(context, 50),
       technical_skills |-> Get(result.technical_skills, <<>>),
       soft_skills |-> Get(result.soft_skills, <<>>),
       tools_technologies |-> <<>>,
       certifications |-> <<>>,
       overall_match_score |-> Get(result.overall_match_score, 0),
       skills_match_score |-> Get(result.skills_match_score, 0),
       experience_match_score |-> Get(result.experience_match_score, 0),
       missing_skills |-> <<>>,
       matching_skills |-> <<>>,
       recommendations |-> <<>>,
       ai_summary |-> Get(result.ai_summary, ""),
       ai_fit_assessment |-> "",
       interview_tips |-> <<>>])

\* The try block of an AI tier: create() raises, json.loads / the regex finds
\* no JSON, or JobAnalysis(...) is built (and may raise ValidationError).
TryTier(context, response) ==
    IF response.kind = "json"
    THEN AnalysisFromResult(context, response)
    ELSE [raised |-> TRUE]

\* Mutant: the Groq handler goes straight to the basic analysis.
GroqExceptSkipsOpenAI == "basic"

\* Mutant: the OpenAI handler logs and re-raises.
OpenAIExceptReraises == "raised"

\* Mutant: skills gets the concatenated keyword list.
UpdateJobSkillsFromKeywords(j, a) ==
    [j EXCEPT !.resume_match_score = <<a.overall_match_score>>,
              !.keywords = a.technical_skills \o a.soft_skills,
              !.skills = a.technical_skills \o a.soft_skills]

\* `except Exception` of _analyze_with_groq: falls back to OpenAI when
\* self.openai_client is set, else to the basic analysis. Names the next step.
GroqExcept == IF openai_client THEN "openai" ELSE "basic"

\* `except Exception` of _analyze_with_openai: returns the basic analysis.
OpenAIExcept == "basic"

\* "Use Groq for fast analysis if available, otherwise OpenAI"
FirstTier(has_groq) == IF has_groq THEN "groq" ELSE "openai"

\* "Update job with match score": the three assignments of analyze_job_fit
UpdateJobWithAnalysis(j, a) ==
    [j EXCEPT !.resume_match_score = <<a.overall_match_score>>,
              !.keywords = a.technical_skills \o a.soft_skills,
              !.skills = a.technical_skills]

----------------------------------------------------------------------------
(* Inputs of the match scoring engine *)

JobWords == <<"Python", "SQL", "JavaScript", "Docker">>
ResumeWords == <<"Python", "SQL", "React">>
KnownSkillWords == <<"AWS", "Kubernetes">>

\* The entries of list at the positions in picked, in list order
RECURSIVE Pick(_, _)
Pick(list, picked) ==
    IF list = <<>> THEN <<>>
    ELSE LET rest == Pick(SubSeq(list, 1, Len(list) - 1), picked)
         IN  IF Len(list) \in picked THEN Append(rest, list[Len(list)]) ELSE rest

\* The sub-lists of list with at most n entries
SubLists(list, n) ==
    { Pick(list, picked) : picked \in { p \in SUBSET (1..Len(list)) : Cardinality(p) <= n } }

\* The texts made of at most n of the words, separated by blanks
Texts(words, n) == { join(" ", l) : l \in SubLists(words, n) }

Requirements == <<"Strong communication", "Teamwork">>

JobInputs ==
    { JobListing("4242", "Engineer", d, Requirements) :
        d \in Texts(JobWords, MaxJobWords) }

Profiles ==
    { ResumeProfile(t, k) :
        t \in Texts(ResumeWords, MaxResumeWords),
        k \in SubLists(KnownSkillWords, MaxKnownSkills) }

Responses ==
    { TransportError, Unparseable,
      JsonObject(<<Pct(85)>>, <<Pct(80)>>, <<Pct(90)>>,
                 <<<<"Python", "AWS">>>>, <<<<"communication">>>>, <<"A backend role">>),
      JsonObject(<<Pct(150)>>, <<Pct(80)>>, <<Pct(90)>>,
                 <<<<"Python">>>>, <<<<>>>>, <<"A backend role">>),
      JsonObject(<<Pct(85)>>, <<Pct(80)>>, <<0 - Pct(5)>>,
                 <<<<"Python">>>>, <<<<>>>>, <<"A backend role">>),
      JsonObject(<<>>, <<Pct(100)>>, <<Pct(0)>>,
                 <<<<"Docker">>>>, <<>>, <<>>) }

----------------------------------------------------------------------------
(* database/models.py and database/db_manager.py: the analysis cache.      *)
(* Times are hours on the UTC clock; a query result is a row index of the  *)
(* table, 0 for None.                                                      *)

\* one step of the clock, in hours
TickHours == 12

\* AnalysisCache(job_id=..., analysis_type=..., analysis_result=..., expires_at=...):
\* id is the autoincrement key, created_at defaults to utcnow.  The table has an
\* index on (job_id, analysis_type) and no unique constraint.
AnalysisCache(id, job_id, analysis_type, analysis_result, created_at, expires_at) ==
    [id |-> id, job_id |-> job_id, analysis_type |-> analysis_type,
     analysis_result |-> analysis_result, created_at |-> created_at,
     expires_at |-> expires_at]

\* the key SQLite gives an inserted row: id is INTEGER PRIMARY KEY without
\* AUTOINCREMENT, so it is one more than the largest id in the table
NextId(rows) ==
    IF rows = <<>> THEN 1
    ELSE (CHOOSE m \in { rows[i].id : i \in 1..Len(rows) } :
             \A i \in 1..Len(rows) : rows[i].id <= m) + 1

\* db.query(AnalysisCache).filter_by(job_id=job_id, analysis_type=analysis_type)
FilterBy(rows, job_id, analysis_type) ==
    { i \in 1..Len(rows) : rows[i].job_id = job_id /\ rows[i].analysis_type = analysis_type }

\* query.first(): the query has no ORDER BY, so any matching row may come
\* first; None (0) when no row matches.  The set of possible outcomes.
First(matching) == IF matching = {} THEN {0} ELSE matching

\* expires_at = datetime.utcnow() + timedelta(hours=expires_hours)
ExpiresAt(utcnow, expires_hours) == utcnow + expires_hours

\* cache_analysis, lines 347-358: update the existing row or add a new one
WriteCache(rows, existing, job_id, analysis_type, result, expires_at, utcnow) ==
    IF existing # 0
    THEN [rows EXCEPT ![existing].analysis_result = result,
                      ![existing].expires_at = expires_at,
                      ![existing].created_at = utcnow]
    ELSE Append(rows, AnalysisCache(NextId(rows), job_id, analysis_type, result,
                                    utcnow, expires_at))

\* a cached entry that never expires
NeverExpires(cache, utcnow) == TRUE

\* get_cached_analysis, line 386: cache.expires_at > datetime.utcnow()
NotExpired(cache, utcnow) == cache.expires_at > utcnow

\* Optional[Dict]: None is <<>>, a result r is <<r>>
NoResult == <<>>

\* get_cached_analysis, lines 386-389
CachedResult(rows, cache, utcnow) ==
    IF cache # 0 /\ NotExpired(rows[cache], utcnow)
    THEN <<rows[cache].analysis_result>>
    ELSE NoResult

----------------------------------------------------------------------------
(* database/models.py and database/db_manager.py: the primary store *)

\* Python's `a or b` on Optional[str], List[str] and Optional[float]
OrStr(a, b) == IF a = None \/ a = "" THEN b ELSE a
OrList(a, b) == IF a = <<>> THEN b ELSE a
OrScore(a, b) == IF a = NoScore \/ a = <<0>> THEN b ELSE a

\* Job(job_id=job_listing.job_id, ...), add_job lines 46-75; id is the
\* autoincrement key, last_updated, viewed, applied take the column defaults.
Job(id, job_listing, utcnow) ==
    [id |-> id,
     job_id |-> job_listing.job_id,
     title |-> job_listing.title,
     company |-> job_listing.company,
     location |-> job_listing.location,
     url |-> job_listing.url,
     description |-> job_listing.description,
     requirements |-> job_listing.requirements,
     qualifications |-> job_listing.qualifications,
     responsibilities |-> job_listing.responsibilities,
     benefits |-> job_listing.benefits,
     job_type |-> job_listing.job_type,
     experience_level |-> job_listing.experience_level,
     salary_range |-> job_listing.salary_range,
     employment_type |-> job_listing.employment_type,
     industry |-> job_listing.industry,
     company_size |-> job_listing.company_size,
     posted_date |-> job_listing.posted_date,
     application_deadline |-> job_listing.application_deadline,
     applicants_count |-> job_listing.applicants_count,
     scraped_at |-> job_listing.scraped_at,
     last_updated |-> utcnow,
     source |-> job_listing.source,
     status |-> job_listing.status,
     keywords |-> job_listing.keywords,
     skills |-> job_listing.skills,
     resume_match_score |-> job_listing.resume_match_score,
     match_reasons |-> job_listing.match_reasons,
     notes |-> job_listing.notes,
     tags |-> job_listing.tags,
     viewed |-> FALSE, applied |-> FALSE, applied_date |-> None]

\* a merge that overwrites every field with the incoming value
UpdateJobOverwriteAll(existing, job_listing, utcnow) ==
    [existing EXCEPT
        !.title = job_listing.title,
        !.company = job_listing.company,
        !.location = job_listing.location,
        !.description = job_listing.description,
        !.requirements = job_listing.requirements,
        !.qualifications = job_listing.qualifications,
        !.salary_range = job_listing.salary_range,
        !.applicants_count = job_listing.applicants_count,
        !.resume_match_score = job_listing.resume_match_score,
        !.keywords = job_listing.keywords,
        !.skills = job_listing.skills,
        !.last_updated = utcnow]

\* a merge that also takes the status and the scrape time of the incoming listing
UpdateJobResetsStatus(existing, job_listing, utcnow) ==
    [existing EXCEPT
        !.title = job_listing.title,
        !.company = job_listing.company,
        !.location = job_listing.location,
        !.description = OrStr(job_listing.description, existing.description),
        !.requirements = OrList(job_listing.requirements, existing.requirements),
        !.qualifications = OrList(job_listing.qualifications, existing.qualifications),
        !.salary_range = OrStr(job_listing.salary_range, existing.salary_range),
        !.applicants_count = OrStr(job_listing.applicants_count, existing.applicants_count),
        !.resume_match_score = OrScore(job_listing.resume_match_score,
                                       existing.resume_match_score),
        !.keywords = OrList(job_listing.keywords, existing.keywords),
        !.skills = OrList(job_listing.skills, existing.skills),
        !.status = job_listing.status,
        !.scraped_at = job_listing.scraped_at,
        !.last_updated = utcnow]

\* _update_job
update_job(existing, job_listing, utcnow) ==
    [existing EXCEPT
        !.title = job_listing.title,
        !.company = job_listing.company,
        !.location = job_listing.location,
        !.description = OrStr(job_listing.description, existing.description),
        !.requirements = OrList(job_listing.requirements, existing.requirements),
        !.qualifications = OrList(job_listing.qualifications, existing.qualifications),
        !.salary_range = OrStr(job_listing.salary_range, existing.salary_range),
        !.applicants_count = OrStr(job_listing.applicants_count, existing.applicants_count),
        !.resume_match_score = OrScore(job_listing.resume_match_score,
                                       existing.resume_match_score),
        !.keywords = OrList(job_listing.keywords, existing.keywords),
        !.skills = OrList(job_listing.skills, existing.skills),
        !.last_updated = utcnow]

\* db.query(Job).filter_by(job_id=job_listing.job_id)
FilterByJobId(rows, job_id) == { i \in 1..Len(rows) : rows[i].job_id = job_id }

\* a jobs table without the unique constraint
NoUniqueConstraint(rows, job_id) == TRUE

\* Column(String(100), unique=True): an INSERT is accepted only when no row
\* holds the job_id
UniqueJobId(rows, job_id) == \A i \in 1..Len(rows) : rows[i].job_id # job_id

\* the UPDATE a commit emits for a loaded row: the columns whose value differs
\* from the value loaded by the query
Flush(stored, loaded, changed) ==
    [f \in DOMAIN stored |-> IF changed[f] # loaded[f] THEN changed[f] ELSE stored[f]]

\* add_job after the query: merge into the existing row or insert a new one,
\* then commit; a failed commit is rolled back and add_job returns None (0)
CommitJob(rows, existing, loaded, job_listing, utcnow, commit_ok) ==
    IF ~commit_ok
    THEN [rows |-> rows, result |-> 0]
    ELSE IF existing # 0
    THEN [rows |-> [rows EXCEPT ![existing] =
                        Flush(rows[existing], loaded,
                              update_job(loaded, job_listing, utcnow))],
          result |-> existing]
    ELSE IF UniqueJobId(rows, job_listing.job_id)
    THEN [rows |-> Append(rows, Job(NextId(rows), job_listing, utcnow)),
          result |-> Len(rows) + 1]
    ELSE [rows |-> rows, result |-> 0]

----------------------------------------------------------------------------
(* models/job_model.py: GoogleSheetRow; services/google_sheets_service.py *)

\* datetime(year, month, day, hour, minute, second)
Datetime(year, month, day, hour, minute, second) ==
    [year |-> year, month |-> month, day |-> day,
     hour |-> hour, minute |-> minute, second |-> second]

\* zero-padded decimal fields of strftime
Digit(n) == SubSeq("0123456789", n + 1, n + 1)
Pad2(n) == Digit((n \div 10) % 10) \o Digit(n % 10)
Pad4(n) == Pad2(n \div 100) \o Pad2(n % 100)

\* scraped_dt.strftime("%Y-%m-%d") and scraped_dt.strftime("%H:%M:%S")
strftime_date(dt) == Pad4(dt.year) \o "-" \o Pad2(dt.month) \o "-" \o Pad2(dt.day)
strftime_time(dt) == Pad2(dt.hour) \o ":" \o Pad2(dt.minute) \o ":" \o Pad2(dt.second)

\* list[:n]
Take(list, n) == SubSeq(list, 1, Min(Len(list), n))

\* the words that mark a requirement as skill-related, line 220
SkillWords == <<"skill", "experience", "knowledge", "proficient">>

\* the separator of the responsibilities cell, line 204 (its bullet written "*")
BulletSeparator == "\n* "

\* GoogleSheetRow.from_job_listing
from_job_listing(j) ==
    LET job_responsibilities ==
            IF Len(j.responsibilities) > 0
            THEN join(BulletSeparator, Take(j.responsibilities, 5))
            ELSE IF Len(j.description) > 500
                 THEN Prefix(j.description, 500) \o "..."
                 ELSE j.description
        job_type_str == IF j.job_type # None THEN j.job_type ELSE ""
        skill_reqs ==
            SelectSeq(j.requirements,
                      LAMBDA req : \E w \in 1..Len(SkillWords) :
                                       In(SkillWords[w], lower(req)))
        from_requirements ==
            IF skill_reqs # <<>> THEN join(", ", Take(skill_reqs, 3)) ELSE ""
        preferred_skills ==
            IF from_requirements = "" /\ j.skills # <<>>
            THEN join(", ", j.skills)
            ELSE from_requirements
        matching_skills ==
            IF j.match_reasons # <<>> THEN join(", ", Take(j.match_reasons, 5))
            ELSE IF j.skills # <<>> THEN join(", ", Take(j.skills, 5))
            ELSE ""
    IN  [date |-> strftime_date(j.scraped_at),
         time |-> strftime_time(j.scraped_at),
         role |-> j.title,
         company |-> j.company,
         location |-> j.location,
         job_type |-> job_type_str,
         level |-> IF j.level # NoLevel THEN j.level[1] ELSE 0,
         link |-> IF j.url # None THEN j.url ELSE "",
         job_responsibilities |-> job_responsibilities,
         preferred_skills |-> preferred_skills,
         matching_skills |-> matching_skills,
         role_match |-> IF j.resume_match_score = NoScore THEN 0
                        ELSE j.resume_match_score[1],
         salary |-> OrStr(j.salary_range, "Not specified"),
         posted |-> OrStr(j.posted_date, ""),
         number_of_applicants |-> OrStr(j.applicants_count, "")]

\* GoogleSheetRow.to_list: the cells of a row, column A first
to_list(row) ==
    <<row.date, row.time, row.role, row.company, row.location, row.job_type,
      row.level, row.link, row.job_responsibilities, row.preferred_skills,
      row.matching_skills, row.role_match, row.salary, row.posted,
      row.number_of_applicants>>

\* GoogleSheetRow.get_headers
get_headers ==
    <<"Date", "Time", "Role", "Company", "Location", "Job Type", "Level", "Link",
      "Job Responsibilities:", "Preferred Skills", "Matching Skills",
      "Role Match %", "Salary", "Posted", "Number of Applicants">>

\* values().get(range='A:A'): the first cell of every row of the sheet
ColumnA(rows) == [i \in 1..Len(rows) |-> <<rows[i][1]>>]

\* check_duplicate, lines 384-391: values[1:] skips the header row
check_duplicate(values, job_id) ==
    \E i \in 2..Len(values) : values[i] # <<>> /\ values[i][1] = job_id

\* a duplicate check that answers "duplicate" when it cannot read the log
CheckDuplicateExceptSkips == TRUE

\* check_duplicate, lines 393-395: except HttpError: return False
CheckDuplicateExcept == FALSE

\* _get_existing_job_ids, lines 415-421: the non-empty column A cells below
\* the header row
get_existing_job_ids(values) ==
    { values[i][1] : i \in { k \in 2..Len(values) :
                                values[k] # <<>> /\ values[k][1] # "" } }

\* _get_existing_job_ids, lines 423-425: except HttpError: return set()
GetExistingJobIdsExcept == {}

\* add_jobs_batch, lines 253-261: the jobs whose job_id is not in existing_ids
new_jobs(batch, existing_ids) ==
    SelectSeq(batch, LAMBDA j : j.job_id \notin existing_ids)

\* add_jobs_batch, line 268: the rows of the jobs of a batch
BatchRows(batch) == [i \in 1..Len(batch) |-> to_list(from_job_listing(batch[i]))]

----------------------------------------------------------------------------
(* Inputs of the analysis cache, the primary store and the external log *)

\* (job_id, analysis_type) keys
CacheKeys == { <<"4242", "resume_match">>, <<"4242", "keyword_extraction">> }

\* analysis results (JSON objects)
Results == { [overall_match_score |-> 85], [overall_match_score |-> 40] }

\* expires_hours arguments; 24 is the default
ExpiresHours == { 0, 12, 24 }

\* concurrent callers of the cache, concurrent search runs
Callers == { "A", "B" }
Runs == { "A", "B" }

JobIds == { "4242", "4243" }

\* two scrapes of a posting: the fields as scraped the first and the second time
Titles == <<"Engineer", "Senior Engineer">>
Companies == <<"Tech Corp", "Tech Corp Inc">>
Locations == <<"Remote", "Austin, TX">>
Descriptions == <<"Build APIs", "Build and run APIs">>
Salaries == <<"$100k", "$120k">>
Applicants == <<"25 applicants", "0">>
RequirementLists == << <<"Python experience">>, <<"Python experience", "Teamwork">> >>
QualificationLists == << <<"BSc">>, <<"MSc">> >>
SkillLists == << <<"python">>, <<"python", "sql">> >>
Scores == << <<Pct(85)>>, <<Pct(40)>> >>
Scrapes == { 1, 2 }

\* the forms a scraped text field takes: not scraped (None), scraped blank, scraped
TextForms == { "absent", "blank", "given" }

Text(form, value) == IF form = "given" THEN value ELSE IF form = "blank" THEN "" ELSE None

\* a scraped JobListing: text fields in the given form, list fields and the
\* score filled or left at their defaults
ScrapedListing(job_id, v, form, lists) ==
    [JobListing(job_id, Titles[v],
                IF form = "given" THEN Descriptions[v] ELSE "",
                IF lists THEN RequirementLists[v] ELSE <<>>)
        EXCEPT !.company = Companies[v],
               !.location = Locations[v],
               !.qualifications = IF lists THEN QualificationLists[v] ELSE <<>>,
               !.salary_range = Text(form, Salaries[v]),
               !.applicants_count = Text(form, Applicants[v]),
               !.keywords = IF lists THEN SkillLists[v] ELSE <<>>,
               !.skills = IF lists THEN SkillLists[v] ELSE <<>>,
               !.resume_match_score = IF lists THEN Scores[v] ELSE NoScore]

\* add_job arguments of a single run: one posting in every form, another
\* posting fully scraped
StoreListings ==
    { ScrapedListing("4242", v, form, lists) :
        v \in Scrapes, form \in TextForms, lists \in BOOLEAN }
    \cup { ScrapedListing("4243", v, "given", TRUE) : v \in Scrapes }

\* add_job arguments of two concurrent runs
RunListings ==
    { ScrapedListing(job_id, v, form, form = "given") :
        job_id \in JobIds, v \in Scrapes, form \in { "absent", "given" } }

ScrapeTimes == << Datetime(2026, 1, 15, 9, 30, 0), Datetime(2026, 11, 2, 17, 5, 42) >>

\* GoogleSheetsService.add_job arguments: two postings, each scraped twice
SheetListings ==
    { [ScrapedListing(job_id, v, "given", TRUE) EXCEPT !.scraped_at = ScrapeTimes[v]] :
        job_id \in JobIds, v \in Scrapes }

----------------------------------------------------------------------------
(* Initial states *)

NoAnalysis == [none |-> TRUE]
NoGet == [none |-> TRUE]
NoWrite == [none |-> TRUE]
NoJob == [none |-> TRUE]
NoAdd == [none |-> TRUE]
NoCall == [none |-> TRUE]
NoSearchRun == [none |-> TRUE]

\* nothing shown, nothing extracted, nothing scored
NoCard == [none |-> TRUE]
NoPanel == [none |-> TRUE]
NoJobData == [none |-> TRUE]
NoMatch == [none |-> TRUE]

\* no record of the loop handled yet
NoPass == [index |-> 0]

\* a caller of the cache outside cache_analysis; made counts its calls
IdleCaller(made) == [pc |-> "idle", made |-> made]

\* a search run outside add_job: result is what its last add_job returned (a row
\* id, 0 for None, -1 before the first call), rejected whether the jobs table
\* rejected its INSERT
IdleRun(made, result, rejected) ==
    [pc |-> "idle", made |-> made, result |-> result, rejected |-> rejected]

\* no analyze_job_fit call
MatcherIdle ==
    /\ job = JobListing("", "", "", <<>>)
    /\ job_before = job
    /\ resume_profile = ResumeProfile("", <<>>)
    /\ groq_client = FALSE
    /\ pc = "idle"
    /\ job_context = ""
    /\ analysis = NoAnalysis
    /\ groq_response = NotCalled
    /\ openai_response = NotCalled
    /\ calls = <<>>

\* init_db(): an empty analysis_cache table
CacheInit ==
    /\ analysis_cache = <<>>
    /\ now = 0
    /\ callers = [c \in Callers |-> IdleCaller(0)]
    /\ last_get = NoGet
    /\ last_write = [k \in CacheKeys |-> NoWrite]

\* init_db(): an empty jobs table
StoreInit ==
    /\ jobs = <<>>
    /\ runs = [r \in Runs |-> IdleRun(0, -1, FALSE)]
    /\ last_add = NoAdd
    /\ added = {}

\* a spreadsheet holding the header row (_initialize_headers)
SheetInit ==
    /\ service \in BOOLEAN
    /\ sheet = <<get_headers>>
    /\ appended = <<>>
    /\ sheet_result = "none"
    /\ sheet_call = NoCall

\* no call on the Google Sheets service
SheetIdle ==
    /\ service = FALSE
    /\ sheet = <<get_headers>>
    /\ appended = <<>>
    /\ sheet_result = "none"
    /\ sheet_call = NoCall

\* no search run
RunIdle ==
    /\ search = [pc |-> "idle"]
    /\ search_run = NoSearchRun
    /\ processed = NoPass

\* no posting is being extracted
ExtractIdle ==
    /\ job_card = NoCard
    /\ detail_panel = NoPanel
    /\ extracted_job = NoJobData
    /\ match = NoMatch

NoSweep == [none |-> TRUE]
NoParse == [none |-> TRUE]
NoTask == [pc |-> "none"]

\* no cleanup, no parser call, no profile request
LaterIdle ==
    /\ last_sweep = NoSweep
    /\ posting_text = ""
    /\ parse_result = NoParse
    /\ profile_task = NoTask

\* the services constructed, no analyze_job_fit call in progress
OtherInit == MatcherIdle /\ CacheInit /\ StoreInit /\ SheetIdle /\ RunIdle /\ ExtractIdle /\ LaterIdle

\* the same with the Google Sheets service authenticated or not
SheetServiceInit == MatcherIdle /\ CacheInit /\ StoreInit /\ SheetInit /\ RunIdle /\ ExtractIdle /\ LaterIdle

----------------------------------------------------------------------------
(* The match scoring engine as a state machine: one call of analyze_job_fit, *)
(* a step per provider call.                                                 *)

MatcherInit ==
    /\ job \in JobInputs
    /\ job_before = job
    /\ resume_profile \in Profiles
    /\ groq_client \in BOOLEAN
    /\ pc = "start"
    /\ job_context = ""
    /\ analysis = NoAnalysis
    /\ groq_response = NotCalled
    /\ openai_response = NotCalled
    /\ calls = <<>>
    /\ CacheInit /\ StoreInit /\ SheetIdle /\ RunIdle /\ ExtractIdle /\ LaterIdle

\* analyze_job_fit, lines 100-108: build the context and pick the first tier
PrepareJobContext ==
    /\ pc = "start"
    /\ job_context' = prepare_job_context(job, resume_profile)
    /\ pc' = FirstTier(groq_client)
    /\ UNCHANGED <<job, job_before, resume_profile, groq_client, analysis,
                   groq_response, openai_response, calls>>
    /\ UNCHANGED <<cacheVars, storeVars, sheetVars, runVars, extractVars, laterVars>>

\* _analyze_with_groq
AnalyzeWithGroq ==
    /\ pc = "groq"
    /\ \E response \in Responses :
         \E try \in { TryTier(job_context, response) } :
             /\ groq_response' = response
             /\ calls' = Append(calls, "groq")
             /\ analysis' = IF try.raised THEN analysis ELSE try.analysis
             /\ pc' = IF try.raised THEN GroqExcept ELSE "update"
    /\ UNCHANGED <<job, job_before, resume_profile, groq_client, job_context,
                   openai_response>>
    /\ UNCHANGED <<cacheVars, storeVars, sheetVars, runVars, extractVars, laterVars>>

\* _analyze_with_openai
AnalyzeWithOpenAI ==
    /\ pc = "openai"
    /\ \E response \in Responses :
         \E try \in { TryTier(job_context, response) } :
             /\ openai_response' = response
             /\ calls' = Append(calls, "openai")
             /\ analysis' = IF try.raised THEN analysis ELSE try.analysis
             /\ pc' = IF try.raised THEN OpenAIExcept ELSE "update"
    /\ UNCHANGED <<job, job_before, resume_profile, groq_client, job_context,
                   groq_response>>
    /\ UNCHANGED <<cacheVars, storeVars, sheetVars, runVars, extractVars, laterVars>>

\* _create_basic_analysis, called from an except handler: an exception of it
\* would leave the handler and be re-raised by analyze_job_fit (lines 117-119)
CreateBasicAnalysis ==
    /\ pc = "basic"
    /\ \E basic \in { create_basic_analysis(job_context, resume_profile) } :
           /\ calls' = Append(calls, "basic")
           /\ analysis' = IF basic.raised THEN analysis ELSE basic.analysis
           /\ pc' = IF basic.raised THEN "raised" ELSE "update"
    /\ UNCHANGED <<job, job_before, resume_profile, groq_client, job_context,
                   groq_response, openai_response>>
    /\ UNCHANGED <<cacheVars, storeVars, sheetVars, runVars, extractVars, laterVars>>

\* analyze_job_fit, lines 110-115: update the job and return the analysis
UpdateJobAndReturn ==
    /\ pc = "update"
    /\ job' = UpdateJobWithAnalysis(job, analysis)
    /\ pc' = "returned"
    /\ UNCHANGED <<job_before, resume_profile, groq_client, job_context, analysis,
                   groq_response, openai_response, calls>>
    /\ UNCHANGED <<cacheVars, storeVars, sheetVars, runVars, extractVars, laterVars>>

MatcherNext ==
    \/ PrepareJobContext
    \/ AnalyzeWithGroq
    \/ AnalyzeWithOpenAI
    \/ CreateBasicAnalysis
    \/ UpdateJobAndReturn

SpecMatcher == MatcherInit /\ [][MatcherNext]_vars

----------------------------------------------------------------------------
(* Claims about the match scoring engine *)

Last(list) == list[Len(list)]

\* The order in which the configured tiers are to be tried
TierChain == IF groq_client THEN <<"groq", "openai", "basic">> ELSE <<"openai", "basic">>

\* The response a tier got in this call
ResponseOf(tier) == IF tier = "groq" THEN groq_response ELSE openai_response

\* A provider failure: a transport error, no parseable JSON, or a score
\* (0 when the key is absent) outside [0, 100]
OutOfRange(entry) == entry /= <<>> /\ (entry[1] < 0 \/ entry[1] > Pct(100))
ProviderFailed(response) ==
    \/ response.kind /= "json"
    \/ OutOfRange(response.overall_match_score)
    \/ OutOfRange(response.skills_match_score)
    \/ OutOfRange(response.experience_match_score)

\* The analysis is the one the tier produced
ProducedBy(tier, a) ==
    IF tier = "basic"
    THEN a.ai_fit_assessment = "Basic analysis only"
    ELSE /\ ~ProviderFailed(ResponseOf(tier))
         /\ a.overall_match_score = Get(ResponseOf(tier).overall_match_score, 0)
         /\ a.technical_skills = Get(ResponseOf(tier).technical_skills, <<>>)
         /\ a.ai_summary = Get(ResponseOf(tier).ai_summary, "")

\* C1: the tiers are tried strictly in order (primary AI, secondary AI,
\* heuristic), each at most once; a tier is invoked only after every tier
\* before it was invoked and failed; the analysis returned is the one of the
\* first tier that succeeded.
C1_TiersInOrder ==
    /\ Len(calls) <= Len(TierChain)
    /\ calls = SubSeq(TierChain, 1, Len(calls))
    /\ \A i \in 2..Len(calls) : ProviderFailed(ResponseOf(calls[i - 1]))
    /\ pc \in {"update", "returned"} =>
         /\ calls /= <<>>
         /\ ProducedBy(Last(calls), analysis)

C1_Witness ==
    /\ pc = "returned"
    /\ calls = <<"groq", "openai", "basic">>

\* C2: whatever the providers answer, analyze_job_fit never raises: the call
\* is always at a step that degrades to the next tier or returns, the
\* heuristic tier always yields an analysis, and what is returned is a
\* JobAnalysis (its three scores within [0, 100]).
C2_NeverRaises ==
    /\ pc \in {"start", "groq", "openai", "basic", "update", "returned"}
    /\ (calls /= <<>> /\ Last(calls) = "basic") => pc \in {"update", "returned"}
    /\ pc = "returned" =>
         /\ analysis /= NoAnalysis
         /\ ScoreInRange(analysis.overall_match_score)
         /\ ScoreInRange(analysis.skills_match_score)
         /\ ScoreInRange(analysis.experience_match_score)

C2_Witness ==
    /\ pc = "returned"
    /\ groq_response = TransportError
    /\ openai_response.kind = "json"
    /\ ProviderFailed(openai_response)

\* The job's own text and the vocabulary words found in a text
JobOwnText(j) ==
    join(" ", <<j.title, j.description>> \o j.requirements \o j.qualifications
              \o j.responsibilities)
FoundIn(keywords, text) == SelectSeq(keywords, LAMBDA k : In(k, lower(text)))

\* C3: the heuristic scorer's technical_skills are the vocabulary keywords
\* found in the job text, matching_skills those of them also found in the
\* resume text, overall = skills score = |matching| / |technical| * 100 and
\* experience score 50; a job text with exactly 4 vocabulary skills and a
\* resume with exactly 2 of them give skills score 50.0 and 2 matching skills.
C3_HeuristicScore ==
    (pc = "returned" /\ Last(calls) = "basic") =>
        LET technical == FoundIn(tech_keywords, JobOwnText(job_before))
            matching == FoundIn(technical, resume_profile.resume_text)
        IN  /\ analysis.technical_skills = technical
            /\ analysis.matching_skills = matching
            /\ analysis.overall_match_score = analysis.skills_match_score
            /\ analysis.experience_match_score = Pct(50)
            /\ technical /= <<>> =>
                 analysis.skills_match_score * Len(technical) = Len(matching) * Pct(100)
            /\ (Len(technical) = 4 /\ Len(matching) = 2) =>
                 /\ analysis.skills_match_score = Pct(50)
                 /\ Len(analysis.matching_skills) = 2

\* C3, the instance alone: a job text with exactly 4 vocabulary skills and a
\* resume with exactly 2 of them give skills score 50.0 and 2 matching skills.
C3_FourSkillsTwoInResume ==
    (/\ pc = "returned"
     /\ Last(calls) = "basic"
     /\ Len(FoundIn(tech_keywords, JobOwnText(job_before))) = 4
     /\ Len(FoundIn(FoundIn(tech_keywords, JobOwnText(job_before)),
                    resume_profile.resume_text)) = 2) =>
        /\ analysis.skills_match_score = Pct(50)
        /\ Len(analysis.matching_skills) = 2

\* C4: when the job's own text mentions no vocabulary technical skill, the
\* heuristic scorer returns overall = skills score = 50 and no matching
\* skills, whatever the resume text and the known-skills list hold.
C4_NoSkillsMeansFifty ==
    (/\ pc = "returned"
     /\ Last(calls) = "basic"
     /\ FoundIn(tech_keywords, JobOwnText(job_before)) = <<>>) =>
        /\ analysis.overall_match_score = Pct(50)
        /\ analysis.skills_match_score = Pct(50)
        /\ analysis.matching_skills = <<>>

\* C5: a successful analyze_job_fit overwrites resume_match_score, keywords
\* (technical then soft skills) and skills (technical skills) of the
\* JobListing and leaves every other field as it was; until then the
\* JobListing is untouched.
C5_OnlyScoreKeywordsSkills ==
    /\ pc /= "returned" => job = job_before
    /\ pc = "returned" =>
         /\ job.resume_match_score = <<analysis.overall_match_score>>
         /\ job.keywords = analysis.technical_skills \o analysis.soft_skills
         /\ job.skills = analysis.technical_skills
         /\ \A f \in DOMAIN job \ {"resume_match_score", "keywords", "skills"} :
              job[f] = job_before[f]

C5_Witness ==
    /\ pc = "returned"
    /\ Last(calls) = "openai"
    /\ job.keywords = <<"Python", "AWS", "communication">>
    /\ job.skills = <<"Python", "AWS">>
    /\ job.resume_match_score = <<Pct(85)>>


----------------------------------------------------------------------------
(* The analysis cache as a state machine.  SpecCache: one caller, every    *)
(* call a step.  SpecCacheCallers: two callers, each with its own session; *)
(* cache_analysis is a query step and a commit step.                       *)

\* the clock advances
Tick ==
    /\ now + TickHours <= MaxTime
    /\ now' = now + TickHours
    /\ UNCHANGED <<analysis_cache, callers, last_get, last_write>>
    /\ UNCHANGED <<matcherVars, storeVars, sheetVars, runVars, extractVars, laterVars>>

\* the write a successful cache_analysis call made, as the caller asked for it
Written(result, at, expires_hours) ==
    [result |-> result, at |-> at, expires_hours |-> expires_hours]

\* cache_analysis by a single caller; a commit that raises is rolled back
CacheAnalysis ==
    /\ \E key \in CacheKeys, result \in Results, expires_hours \in ExpiresHours,
          commit_ok \in BOOLEAN :
         \E existing \in First(FilterBy(analysis_cache, key[1], key[2])) :
            /\ analysis_cache' =
                 IF commit_ok
                 THEN WriteCache(analysis_cache, existing, key[1], key[2], result,
                                 ExpiresAt(now, expires_hours), now)
                 ELSE analysis_cache
            /\ last_write' =
                 IF commit_ok
                 THEN [last_write EXCEPT ![key] = Written(result, now, expires_hours)]
                 ELSE last_write
    /\ UNCHANGED <<now, callers, last_get>>
    /\ UNCHANGED <<matcherVars, storeVars, sheetVars, runVars, extractVars, laterVars>>

\* get_cached_analysis; last_get keeps the answer and what was last written
\* under the key when the call was made
GetCachedAnalysis ==
    /\ \E key \in CacheKeys :
         \E cache \in First(FilterBy(analysis_cache, key[1], key[2])) :
            last_get' = [job_id |-> key[1], analysis_type |-> key[2], at |-> now,
                         value |-> CachedResult(analysis_cache, cache, now),
                         written |-> last_write[key],
                         stored |-> cache # 0]
    /\ UNCHANGED <<analysis_cache, now, callers, last_write>>
    /\ UNCHANGED <<matcherVars, storeVars, sheetVars, runVars, extractVars, laterVars>>

CacheNext ==
    \/ CacheAnalysis
    \/ GetCachedAnalysis
    \/ Tick

SpecCache == OtherInit /\ [][CacheNext]_vars

\* cache_analysis, lines 338-345, by caller c: the query and the expiry time
CacheAnalysisQuery(c) ==
    /\ callers[c].pc = "idle"
    /\ callers[c].made < MaxCallsPerCaller
    /\ \E key \in CacheKeys, result \in Results, expires_hours \in ExpiresHours :
         \E existing \in First(FilterBy(analysis_cache, key[1], key[2])) :
            callers' = [callers EXCEPT ![c] =
                          [pc |-> "queried", made |-> callers[c].made + 1,
                           job_id |-> key[1], analysis_type |-> key[2],
                           result |-> result, expires_hours |-> expires_hours,
                           existing |-> existing, at |-> now,
                           expires_at |-> ExpiresAt(now, expires_hours)]]
    /\ UNCHANGED <<analysis_cache, now, last_get, last_write>>
    /\ UNCHANGED <<matcherVars, storeVars, sheetVars, runVars, extractVars, laterVars>>

\* cache_analysis, lines 347-366, by caller c: the write and the commit
CacheAnalysisCommit(c) ==
    /\ callers[c].pc = "queried"
    /\ \E commit_ok \in BOOLEAN :
         LET call == callers[c]
         IN  /\ analysis_cache' =
                  IF commit_ok
                  THEN WriteCache(analysis_cache, call.existing, call.job_id,
                                  call.analysis_type, call.result, call.expires_at,
                                  call.at)
                  ELSE analysis_cache
             /\ last_write' =
                  IF commit_ok
                  THEN [last_write EXCEPT ![<<call.job_id, call.analysis_type>>] =
                            Written(call.result, call.at, call.expires_hours)]
                  ELSE last_write
             /\ callers' = [callers EXCEPT ![c] = IdleCaller(call.made)]
    /\ UNCHANGED <<now, last_get>>
    /\ UNCHANGED <<matcherVars, storeVars, sheetVars, runVars, extractVars, laterVars>>

CacheCallersNext ==
    \/ \E c \in Callers : CacheAnalysisQuery(c)
    \/ \E c \in Callers : CacheAnalysisCommit(c)
    \/ GetCachedAnalysis
    \/ Tick

SpecCacheCallers == OtherInit /\ [][CacheCallersNext]_vars

----------------------------------------------------------------------------
(* Claims about the analysis cache *)

\* the expiry time the caller of a write asked for: call time plus ttl
AskedExpiry(write) == write.at + write.expires_hours

\* C6: get_cached_analysis returns the most recently written value of the key
\* while the clock is before that write's expiry time, and None once the clock
\* is past it although the row is still stored; a value written with ttl 0 is
\* not returned after any delay; a key never written returns None.
C6_LazyExpiry ==
    last_get # NoGet =>
        IF last_get.written = NoWrite
        THEN last_get.value = NoResult
        ELSE /\ last_get.at < AskedExpiry(last_get.written)
                    => last_get.value = <<last_get.written.result>>
             /\ last_get.at > AskedExpiry(last_get.written)
                    => last_get.value = NoResult /\ last_get.stored
             /\ (last_get.written.expires_hours = 0 /\ last_get.at > last_get.written.at)
                    => last_get.value = NoResult

\* a get after a put with ttl 0 and a delay: None, the row still stored
C6_Witness ==
    /\ last_get # NoGet
    /\ last_get.written # NoWrite
    /\ last_get.written.expires_hours = 0
    /\ last_get.at > last_get.written.at
    /\ last_get.stored
    /\ last_get.value = NoResult

\* C7: the cache holds at most one entry per (job_id, analysis_type) key, also
\* when the cache_analysis calls of two callers interleave.
C7_OneEntryPerKey ==
    \A i, k \in 1..Len(analysis_cache) :
        (/\ analysis_cache[i].job_id = analysis_cache[k].job_id
         /\ analysis_cache[i].analysis_type = analysis_cache[k].analysis_type)
            => i = k

\* the second half of C7 alone: a get before the expiry of the latest write of
\* a key returns that write's value, never an earlier one
C7_NoEarlierValue ==
    (/\ last_get # NoGet
     /\ last_get.written # NoWrite
     /\ last_get.at < AskedExpiry(last_get.written))
        => last_get.value = <<last_get.written.result>>

----------------------------------------------------------------------------
(* The primary store as a state machine.  SpecStore: one search run, every *)
(* add_job call a step.  SpecStoreRuns: two concurrent search runs, each   *)
(* with its own session; add_job is a query step and a commit step.        *)

\* the row a query result names, NoJob for None
RowOf(rows, existing) == IF existing = 0 THEN NoJob ELSE rows[existing]

\* add_job by a single run
AddJob ==
    /\ \E job_listing \in StoreListings, commit_ok \in BOOLEAN :
         \E existing \in First(FilterByJobId(jobs, job_listing.job_id)) :
           \E done \in { CommitJob(jobs, existing, RowOf(jobs, existing),
                                   job_listing, now, commit_ok) } :
              /\ jobs' = done.rows
              /\ last_add' = [job_listing |-> job_listing,
                              before |-> RowOf(jobs, existing),
                              result |-> done.result]
              /\ added' = IF done.result # 0
                          THEN added \cup { job_listing.job_id }
                          ELSE added
    /\ UNCHANGED runs
    /\ UNCHANGED <<matcherVars, cacheVars, sheetVars, runVars, extractVars, laterVars>>

StoreNext == AddJob

SpecStore == OtherInit /\ [][StoreNext]_vars

\* add_job, line 37, by run r: the query for an existing record
AddJobQuery(r) ==
    /\ runs[r].pc = "idle"
    /\ runs[r].made < MaxAddsPerRun
    /\ \E job_listing \in RunListings :
         \E existing \in First(FilterByJobId(jobs, job_listing.job_id)) :
            runs' = [runs EXCEPT ![r] =
                        [pc |-> "queried", made |-> runs[r].made + 1,
                         job_listing |-> job_listing, existing |-> existing,
                         loaded |-> RowOf(jobs, existing)]]
    /\ UNCHANGED <<jobs, last_add, added>>
    /\ UNCHANGED <<matcherVars, cacheVars, sheetVars, runVars, extractVars, laterVars>>

\* add_job, lines 38-87, by run r: the merge or the insert, and the commit
AddJobCommit(r) ==
    /\ runs[r].pc = "queried"
    /\ \E commit_ok \in BOOLEAN :
         LET call == runs[r]
         IN \E done \in { CommitJob(jobs, call.existing, call.loaded,
                                    call.job_listing, now, commit_ok) } :
              /\ jobs' = done.rows
              /\ added' = IF done.result # 0
                          THEN added \cup { call.job_listing.job_id }
                          ELSE added
              /\ runs' = [runs EXCEPT ![r] =
                            IdleRun(call.made, done.result,
                                    /\ commit_ok
                                    /\ call.existing = 0
                                    /\ done.result = 0)]
    /\ UNCHANGED last_add
    /\ UNCHANGED <<matcherVars, cacheVars, sheetVars, runVars, extractVars, laterVars>>

StoreRunsNext ==
    \/ \E r \in Runs : AddJobQuery(r)
    \/ \E r \in Runs : AddJobCommit(r)

SpecStoreRuns == OtherInit /\ [][StoreRunsNext]_vars

----------------------------------------------------------------------------
(* Claims about the primary store *)

\* the record stored under a job_id
Stored(job_id) == jobs[CHOOSE i \in 1..Len(jobs) : jobs[i].job_id = job_id]

EmptyText(v) == v = None \/ v = ""
TextFields == { "description", "salary_range", "applicants_count" }
ListFields == { "requirements", "qualifications", "keywords", "skills" }

\* C8: after a second add_job of a job_id, title, company and location are the
\* second call's; each of description, salary_range, applicants_count,
\* requirements, qualifications, keywords and skills is the second call's value
\* when that is non-empty and the value the first call left stored otherwise.
C8_MergePolicy ==
    (last_add # NoAdd /\ last_add.before # NoJob /\ last_add.result # 0) =>
        LET first == last_add.before
            second == last_add.job_listing
            stored == Stored(second.job_id)
        IN  /\ stored.title = second.title
            /\ stored.company = second.company
            /\ stored.location = second.location
            /\ \A f \in TextFields :
                 stored[f] = IF EmptyText(second[f]) THEN first[f] ELSE second[f]
            /\ \A f \in ListFields :
                 stored[f] = IF second[f] = <<>> THEN first[f] ELSE second[f]

\* a second call with a new title, an empty description and new requirements
C8_Witness ==
    /\ last_add # NoAdd
    /\ last_add.before # NoJob
    /\ last_add.result # 0
    /\ last_add.job_listing.title # last_add.before.title
    /\ last_add.job_listing.description = ""
    /\ last_add.before.description # ""
    /\ last_add.job_listing.requirements # <<>>
    /\ last_add.job_listing.requirements # last_add.before.requirements
    /\ Stored(last_add.job_listing.job_id).description = last_add.before.description
    /\ Stored(last_add.job_listing.job_id).title = last_add.job_listing.title

\* C9: the jobs table holds exactly one record for every job_id an add_job call
\* added successfully and no other record, also when the add_job calls of two
\* search runs interleave.
C9_OneRecordPerJobId ==
    /\ \A i, k \in 1..Len(jobs) : jobs[i].job_id = jobs[k].job_id => i = k
    /\ { jobs[i].job_id : i \in 1..Len(jobs) } = added

\* both runs found no record of a job_id; the second INSERT was rejected
C9_Witness ==
    /\ \E r \in Runs : runs[r].pc = "idle" /\ runs[r].rejected
    /\ Len(jobs) = 1
    /\ \A r \in Runs : runs[r].made = 1

----------------------------------------------------------------------------
(* The external log as a state machine: GoogleSheetsService.add_job and    *)
(* add_jobs_batch calls                                                    *)

\* the job_ids of a list of JobListings
JobIdsOf(batch) == [i \in 1..Len(batch) |-> batch[i].job_id]

\* what is kept of a call: the operation, the job_ids handed in, whether the
\* read of the duplicate check failed, the job_ids of the rows the log held
\* and the number of rows appended before the call
SheetCall(op, batch, check_failed) ==
    [op |-> op, job_ids |-> JobIdsOf(batch), check_failed |-> check_failed,
     held |-> { appended[i].job_id : i \in 1..Len(appended) },
     rows_before |-> Len(appended)]

\* add_job on JobListing j: the duplicate check (its read may fail), then the
\* append (it may fail, and add_job raises).  The log, and what is kept of the
\* call, after it; appended keeps, for every appended row, the job_id of its
\* JobListing and whether the duplicate check could not read.
AddJobToSheet(j, read_ok, append_ok) ==
    LET duplicate == /\ service
                     /\ IF read_ok
                        THEN check_duplicate(ColumnA(sheet), j.job_id)
                        ELSE CheckDuplicateExcept
        append == service /\ ~duplicate /\ append_ok
    IN  [sheet |-> IF append
                   THEN Append(sheet, to_list(from_job_listing(j)))
                   ELSE sheet,
         appended |-> IF append
                      THEN Append(appended, [job_id |-> j.job_id,
                                             check_failed |-> ~read_ok])
                      ELSE appended,
         sheet_result |-> IF ~service THEN "no_service"
                          ELSE IF duplicate THEN "skipped"
                          ELSE IF append_ok THEN "added"
                          ELSE "raised",
         sheet_call |-> SheetCall("add_job", <<j>>, service /\ ~read_ok)]

\* GoogleSheetsService.add_job
SheetsAddJob ==
    /\ Len(appended) < MaxRows
    /\ \E j \in SheetListings, read_ok \in BOOLEAN, append_ok \in BOOLEAN :
         \E after \in { AddJobToSheet(j, read_ok, append_ok) } :
             /\ sheet' = after.sheet
             /\ appended' = after.appended
             /\ sheet_result' = after.sheet_result
             /\ sheet_call' = after.sheet_call
    /\ UNCHANGED service
    /\ UNCHANGED <<matcherVars, cacheVars, storeVars, runVars, extractVars, laterVars>>

\* the lists of at most n JobListings
RECURSIVE Batches(_)
Batches(n) ==
    IF n = 0 THEN { <<>> }
    ELSE Batches(n - 1) \cup
         { Append(b, j) : b \in { c \in Batches(n - 1) : Len(c) = n - 1 },
                          j \in SheetListings }

\* add_jobs_batch: one read of the existing ids (it may fail), the filter, then
\* one append of all the new rows (it may fail, and add_jobs_batch raises)
SheetsAddJobsBatch ==
    /\ \E batch \in Batches(MaxBatch), read_ok \in BOOLEAN, append_ok \in BOOLEAN :
         /\ Len(appended) + Len(batch) <= MaxRows
         /\ LET reads == service /\ batch # <<>>
                existing_ids == IF read_ok
                                THEN get_existing_job_ids(ColumnA(sheet))
                                ELSE GetExistingJobIdsExcept
                new == IF reads THEN new_jobs(batch, existing_ids) ELSE <<>>
                append == reads /\ new # <<>> /\ append_ok
            IN  /\ sheet' = IF append THEN sheet \o BatchRows(new) ELSE sheet
                /\ appended' =
                     IF append
                     THEN appended \o [i \in 1..Len(new) |->
                                          [job_id |-> new[i].job_id,
                                           check_failed |-> ~read_ok]]
                     ELSE appended
                /\ sheet_result' = IF ~service THEN "no_service"
                                   ELSE IF batch = <<>> THEN "no_jobs"
                                   ELSE IF new = <<>> THEN "skipped"
                                   ELSE IF append_ok THEN "added"
                                   ELSE "raised"
                /\ sheet_call' = SheetCall("add_jobs_batch", batch, reads /\ ~read_ok)
    /\ UNCHANGED service
    /\ UNCHANGED <<matcherVars, cacheVars, storeVars, runVars, extractVars, laterVars>>

SheetNext ==
    \/ SheetsAddJob
    \/ SheetsAddJobsBatch

SpecSheet == SheetServiceInit /\ [][SheetNext]_vars

----------------------------------------------------------------------------
(* Claims about the external log *)

\* C10: the log holds at most one row per job_id: an add_job call whose job_id
\* an earlier call appended, and whose duplicate check could read the log,
\* appends nothing.
C10_OneRowPerJobId ==
    \A i, k \in 1..Len(appended) :
        (i < k /\ appended[i].job_id = appended[k].job_id) => appended[k].check_failed

\* the rows the last call appended for a job_id
AppendedByCall(job_id) ==
    { i \in (sheet_call.rows_before + 1)..Len(appended) : appended[i].job_id = job_id }

\* C11: an add_jobs_batch call that could read the log and did not raise
\* appends, for every job_id of its batch, exactly one row when the log did not
\* hold the job_id and none when it did, however often the batch names it.
C11_BatchOneRowPerJobId ==
    (/\ sheet_call # NoCall
     /\ sheet_call.op = "add_jobs_batch"
     /\ service
     /\ ~sheet_call.check_failed
     /\ sheet_result # "raised")
        => \A n \in 1..Len(sheet_call.job_ids) :
             Cardinality(AppendedByCall(sheet_call.job_ids[n])) =
                 IF sheet_call.job_ids[n] \in sheet_call.held THEN 0 ELSE 1

----------------------------------------------------------------------------
(* app/main.py: one search run, perform_job_search *)

\* analyze_job_fit from a tier on: the tiers in order on the answers the
\* providers give in this call
RECURSIVE AnalyzeFrom(_, _, _, _, _, _)
AnalyzeFrom(tier, context, profile, groq_answer, openai_answer, invoked) ==
    IF tier = "groq"
    THEN LET try == TryTier(context, groq_answer)
         IN  IF try.raised
             THEN AnalyzeFrom(GroqExcept, context, profile, groq_answer,
                              openai_answer, Append(invoked, "groq"))
             ELSE [raised |-> FALSE, analysis |-> try.analysis,
                   calls |-> Append(invoked, "groq")]
    ELSE IF tier = "openai"
    THEN LET try == TryTier(context, openai_answer)
         IN  IF try.raised
             THEN AnalyzeFrom(OpenAIExcept, context, profile, groq_answer,
                              openai_answer, Append(invoked, "openai"))
             ELSE [raised |-> FALSE, analysis |-> try.analysis,
                   calls |-> Append(invoked, "openai")]
    ELSE IF tier = "basic"
    THEN LET basic == create_basic_analysis(context, profile)
         IN  IF basic.raised
             THEN [raised |-> TRUE, calls |-> Append(invoked, "basic")]
             ELSE [raised |-> FALSE, analysis |-> basic.analysis,
                   calls |-> Append(invoked, "basic")]
    ELSE [raised |-> TRUE, calls |-> invoked]

\* analyze_job_fit as one call: the analysis, the JobListing as the call
\* leaves it and the tiers invoked, or the exception
analyze_job_fit(j, profile, has_groq, groq_answer, openai_answer) ==
    LET done == AnalyzeFrom(FirstTier(has_groq), prepare_job_context(j, profile),
                            profile, groq_answer, openai_answer, <<>>)
    IN  IF done.raised
        THEN [raised |-> TRUE, job |-> j, calls |-> done.calls]
        ELSE [raised |-> FALSE, analysis |-> done.analysis,
              job |-> UpdateJobWithAnalysis(j, done.analysis),
              calls |-> done.calls]

\* the SearchRun row add_search_run creates
SearchRun(started_at) ==
    [status |-> "running", total_results |-> 0, jobs_scraped |-> 0,
     jobs_matched |-> 0, started_at |-> started_at, completed_at |-> <<>>,
     duration_seconds |-> <<>>, error_message |-> None]

\* update_search_run(search_id, db, **kwargs): the row after the call; a
\* failed commit is rolled back
update_search_run(row, kwargs, utcnow, commit_ok) ==
    IF ~commit_ok THEN row
    ELSE LET set == [f \in DOMAIN row |->
                        IF f \in DOMAIN kwargs THEN kwargs[f] ELSE row[f]]
         IN  IF "status" \in DOMAIN kwargs /\ kwargs.status = "completed"
             THEN [set EXCEPT !.completed_at = <<utcnow>>,
                              !.duration_seconds = <<utcnow - row.started_at>>]
             ELSE set

\* a loop that gives up the run when a record fails
RecordExceptAborts == "abort"

\* perform_job_search, lines 225-227: except Exception: log and continue
RecordExcept == "continue"

\* the score from which a job counts as matched, line 215
MatchThreshold == 70

----------------------------------------------------------------------------
(* Inputs of a search run *)

\* what the scraper returns for a posting: the dict main.py passes to
\* JobListing(**job_data); one record carries a score of 150
RunJobData ==
    { JobListing("4242", Titles[1], Descriptions[1], RequirementLists[1]),
      [JobListing("4244", Titles[1], Descriptions[1], <<>>)
          EXCEPT !.resume_match_score = <<Pct(150)>>] }

\* JobListing(**job_data), line 206: the required fields are there and
\* validate_match_score accepts the score
JobListingAccepts(job_data) ==
    /\ job_data.job_id # None
    /\ job_data.title # None
    /\ job_data.resume_match_score = NoScore
         \/ ScoreInRange(job_data.resume_match_score[1])

\* the lists of at most n scraped records
RECURSIVE ScrapeResults(_)
ScrapeResults(n) ==
    IF n = 0 THEN { <<>> }
    ELSE ScrapeResults(n - 1) \cup
         { Append(l, d) : l \in { m \in ScrapeResults(n - 1) : Len(m) = n - 1 },
                          d \in RunJobData }

\* provider answers during a run
RunResponses ==
    { TransportError,
      JsonObject(<<Pct(85)>>, <<Pct(80)>>, <<Pct(90)>>,
                 <<<<"Python", "AWS">>>>, <<<<"communication">>>>, <<"A backend role">>),
      JsonObject(<<Pct(150)>>, <<Pct(80)>>, <<Pct(90)>>,
                 <<<<"Python">>>>, <<<<>>>>, <<"A backend role">>) }

\* the resume profile of a run
RunProfile == ResumeProfile("Python SQL", <<"AWS">>)

----------------------------------------------------------------------------
(* A search run as a state machine: the scrape, a step per record of the   *)
(* loop, the final update of the SearchRun row.                            *)

\* startup_event and POST /api/search: the services as startup left them, the
\* request parameters, the SearchRun row created with status "running"
RunInit ==
    /\ \E enable_matching \in BOOLEAN, save_to_sheets \in BOOLEAN,
          google_sheets_service \in BOOLEAN, resume_matcher_service \in BOOLEAN :
         search = [pc |-> "start", jobs |-> <<>>, i |-> 1, matched_jobs |-> 0,
                   failures |-> 0, scraped |-> FALSE, saved |-> FALSE,
                   enable_matching |-> enable_matching,
                   save_to_sheets |-> save_to_sheets,
                   google_sheets_service |-> google_sheets_service,
                   resume_matcher_service |-> resume_matcher_service]
    /\ search_run = SearchRun(0)
    /\ processed = NoPass
    /\ service \in (IF search.google_sheets_service THEN BOOLEAN ELSE { FALSE })
    /\ sheet = <<get_headers>>
    /\ appended = <<>>
    /\ sheet_result = "none"
    /\ sheet_call = NoCall
    /\ job = JobListing("", "", "", <<>>)
    /\ job_before = job
    /\ resume_profile = RunProfile
    /\ groq_client \in (IF search.resume_matcher_service THEN BOOLEAN ELSE { FALSE })
    /\ pc = "idle"
    /\ job_context = ""
    /\ analysis = NoAnalysis
    /\ groq_response = NotCalled
    /\ openai_response = NotCalled
    /\ calls = <<>>
    /\ CacheInit
    /\ StoreInit
    /\ ExtractIdle
    /\ LaterIdle

\* the except handler of perform_job_search, lines 238-244: the run is failed
FailRun(update_ok) ==
    /\ search_run' = update_search_run(search_run,
                         [status |-> "failed", error_message |-> "error"],
                         now, update_ok)
    /\ search' = [search EXCEPT !.pc = "done", !.saved = update_ok]

\* scraper.search_jobs and the first update of the SearchRun row, lines
\* 186-199; the scraper may raise
ScrapeJobs ==
    /\ search.pc = "start"
    /\ \E update_ok \in BOOLEAN :
         \/ FailRun(update_ok)
         \/ \E scraped \in ScrapeResults(MaxRecords) :
              /\ search' = [search EXCEPT !.pc = "loop", !.jobs = scraped,
                                          !.scraped = TRUE]
              /\ search_run' = update_search_run(search_run,
                                   [total_results |-> Len(scraped),
                                    jobs_scraped |-> Len(scraped)],
                                   now, update_ok)
    /\ UNCHANGED processed
    /\ UNCHANGED <<matcherVars, cacheVars, storeVars, sheetVars>>
    /\ UNCHANGED <<extractVars, laterVars>>

\* the state a record leaves behind when JobListing(**job_data) raises
InvalidRecord(job_data) ==
    [entry |-> [index |-> search.i, job_id |-> job_data.job_id,
                failed |-> "invalid", calls |-> <<>>, scored |-> FALSE,
                score |-> NoScore, store |-> "not offered",
                sheet |-> "not offered"],
     matched |-> 0,
     jobs |-> jobs, last_add |-> last_add, added |-> added,
     sheet |-> sheet, appended |-> appended, sheet_result |-> sheet_result,
     sheet_call |-> sheet_call]

\* the state a record leaves behind when scoring raises
ScoringRaised(job_data, scored) ==
    [InvalidRecord(job_data) EXCEPT !.entry.failed = "scoring",
                                    !.entry.calls = scored.calls]

\* lines 209-223 for a JobListing: the scoring came out as scored (or was not
\* asked for), then add_job on the primary store, then add_job on the log
ValidRecord(scored, matching, commit_ok, read_ok, append_ok) ==
    LET job_listing == scored.job
        existing == CHOOSE e \in First(FilterByJobId(jobs, job_listing.job_id)) : TRUE
        stored == CommitJob(jobs, existing, RowOf(jobs, existing), job_listing,
                            now, commit_ok)
        logging == search.save_to_sheets /\ search.google_sheets_service
        logged == AddJobToSheet(job_listing, read_ok, append_ok)
    IN  [entry |-> [index |-> search.i, job_id |-> job_listing.job_id,
                    failed |-> IF logging /\ logged.sheet_result = "raised"
                               THEN "sheets" ELSE "no",
                    calls |-> scored.calls,
                    scored |-> matching,
                    score |-> job_listing.resume_match_score,
                    store |-> IF stored.result # 0 THEN "record" ELSE "none",
                    sheet |-> IF logging THEN logged.sheet_result ELSE "not offered"],
         matched |-> IF matching /\ scored.analysis.overall_match_score >= Pct(MatchThreshold)
                     THEN 1 ELSE 0,
         jobs |-> stored.rows,
         last_add |-> [job_listing |-> job_listing,
                       before |-> RowOf(jobs, existing),
                       result |-> stored.result],
         added |-> IF stored.result # 0
                   THEN added \cup { job_listing.job_id } ELSE added,
         sheet |-> IF logging THEN logged.sheet ELSE sheet,
         appended |-> IF logging THEN logged.appended ELSE appended,
         sheet_result |-> IF logging THEN logged.sheet_result ELSE sheet_result,
         sheet_call |-> IF logging THEN logged.sheet_call ELSE sheet_call]

\* what the scoring of a JobListing can come out as in this run
ScoringOutcomes(listing, matching) ==
    IF matching
    THEN { analyze_job_fit(listing, resume_profile, groq_client, g, o) :
             g \in RunResponses, o \in RunResponses }
    ELSE { [raised |-> FALSE, analysis |-> NoAnalysis, job |-> listing,
            calls |-> <<>>] }

\* the ways the loop body can end for a record
RecordOutcomes(job_data) ==
    IF ~JobListingAccepts(job_data)
    THEN { InvalidRecord(job_data) }
    ELSE LET matching == search.enable_matching /\ search.resume_matcher_service
         IN UNION { IF scored.raised
                    THEN { ScoringRaised(job_data, scored) }
                    ELSE { ValidRecord(scored, matching, commit_ok, read_ok, append_ok) :
                             commit_ok \in BOOLEAN, read_ok \in BOOLEAN,
                             append_ok \in BOOLEAN }
                    : scored \in ScoringOutcomes(job_data, matching) }

\* one pass of the loop, lines 203-227
ProcessRecord ==
    /\ search.pc = "loop"
    /\ search.i <= Len(search.jobs)
    /\ \E out \in RecordOutcomes(search.jobs[search.i]), update_ok \in BOOLEAN :
         /\ processed' = out.entry
         /\ jobs' = out.jobs
         /\ last_add' = out.last_add
         /\ added' = out.added
         /\ sheet' = out.sheet
         /\ appended' = out.appended
         /\ sheet_result' = out.sheet_result
         /\ sheet_call' = out.sheet_call
         /\ IF out.entry.failed # "no" /\ RecordExcept = "abort"
            THEN FailRun(update_ok)
            ELSE /\ search' = [search EXCEPT
                                 !.i = search.i + 1,
                                 !.matched_jobs = search.matched_jobs + out.matched,
                                 !.failures = search.failures +
                                     (IF out.entry.failed # "no" THEN 1 ELSE 0)]
                 /\ UNCHANGED search_run
    /\ UNCHANGED <<runs, service>>
    /\ UNCHANGED <<matcherVars, cacheVars>>
    /\ UNCHANGED <<extractVars, laterVars>>

\* the update after the loop, lines 229-234
CompleteRun ==
    /\ search.pc = "loop"
    /\ search.i > Len(search.jobs)
    /\ \E update_ok \in BOOLEAN :
         /\ search_run' = update_search_run(search_run,
                              [status |-> "completed",
                               jobs_matched |-> search.matched_jobs],
                              now, update_ok)
         /\ search' = [search EXCEPT !.pc = "done", !.saved = update_ok]
    /\ UNCHANGED processed
    /\ UNCHANGED <<matcherVars, cacheVars, storeVars, sheetVars>>
    /\ UNCHANGED <<extractVars, laterVars>>

RunNext ==
    \/ ScrapeJobs
    \/ ProcessRecord
    \/ CompleteRun

SpecRun == RunInit /\ [][RunNext]_vars

----------------------------------------------------------------------------
(* Claims about a search run *)

\* C13: whatever failed for the records before it, the loop passes over every
\* record the scraper returned, in order: a record JobListing accepts is scored
\* when matching is on, offered to the primary store, and offered to the
\* external log when logging is on; once the scraper has returned, the run is
\* never marked failed and its final update marks it completed.
C13_LaterRecordsProcessed ==
    /\ processed.index > 0 =>
         /\ processed.index = search.i - 1
         /\ processed.job_id = search.jobs[processed.index].job_id
         /\ JobListingAccepts(search.jobs[processed.index]) =>
              /\ processed.scored =
                     (search.enable_matching /\ search.resume_matcher_service)
              /\ processed.store # "not offered"
              /\ (processed.sheet # "not offered") =
                     (search.save_to_sheets /\ search.google_sheets_service)
    /\ (search.pc = "done" /\ search.scraped) =>
         /\ search.i = Len(search.jobs) + 1
         /\ search_run.status # "failed"
         /\ search.saved => search_run.status = "completed"

\* a run of two records whose first record failed and whose second record was
\* scored, stored and logged, ended completed
C13_Witness ==
    /\ search.pc = "done"
    /\ Len(search.jobs) = 2
    /\ search.failures = 1
    /\ processed.index = 2
    /\ processed.failed = "no"
    /\ processed.scored
    /\ processed.store = "record"
    /\ processed.sheet = "added"
    /\ search_run.status = "completed"

----------------------------------------------------------------------------
(* scrapers/linkedin_scraper_playwright.py: the text of a posting to fields *)

Char(s, i) == SubSeq(s, i, i)

\* the characters \s matches in the texts of this model
Whitespace == { " ", "\n", "\t" }

\* the characters \d matches
Digits == { "0", "1", "2", "3", "4", "5", "6", "7", "8", "9" }

\* the position after the longest run of characters of class that starts at i
Run(s, i, class) ==
    CHOOSE j \in i..(Len(s) + 1) :
        /\ \A k \in i..(j - 1) : Char(s, k) \in class
        /\ j = Len(s) + 1 \/ Char(s, j) \notin class

\* str.strip()
strip(s) ==
    LET kept == { i \in 1..Len(s) : Char(s, i) \notin Whitespace }
    IN  IF kept = {} THEN ""
        ELSE SubSeq(s, CHOOSE i \in kept : \A k \in kept : i <= k,
                       CHOOSE i \in kept : \A k \in kept : i >= k)

\* str.split(sep) for a one-character sep
RECURSIVE split(_, _)
split(s, sep) ==
    LET at == { i \in 1..Len(s) : Char(s, i) = sep }
    IN  IF at = {} THEN <<s>>
        ELSE LET i == CHOOSE k \in at : \A m \in at : k <= m
             IN  <<SubSeq(s, 1, i - 1)>> \o split(SubSeq(s, i + 1, Len(s)), sep)

\* int(s) for a string of digits
RECURSIVE int(_)
int(s) ==
    IF Len(s) = 0 THEN 0
    ELSE int(SubSeq(s, 1, Len(s) - 1)) * 10
         + (CHOOSE d \in 0..9 : Char("0123456789", d + 1) = Char(s, Len(s)))

\* str(n) for a non-negative int
RECURSIVE str(_)
str(n) ==
    IF n < 10 THEN Char("0123456789", n + 1)
    ELSE str(n \div 10) \o Char("0123456789", (n % 10) + 1)

\* any(keyword in s for keyword in keywords)
AnyIn(keywords, s) == \E i \in 1..Len(keywords) : In(keywords[i], s)

\* re.sub(r'^[\s<bullet>\-\*\d\.]+', '', s): the leading bullets and numbers
\* dropped.  The bullet U+2022 of the class is not an ASCII character; no text
\* of this model holds it.
BulletClass == Whitespace \cup Digits \cup { "-", "*", "." }

clean_bullet(s) == SubSeq(s, Run(s, 1, BulletClass), Len(s))

\* the keywords that open and close the two sections
responsibilities_open ==
    <<"responsibilities:", "what you'll do:", "you will:",
      "your responsibilities:", "key responsibilities:", "duties:">>

responsibilities_close ==
    <<"requirements:", "qualifications:", "skills:", "what we need:",
      "about you:", "experience:", "education:", "benefits:">>

requirements_open ==
    <<"requirements:", "qualifications:", "must have:", "required:">>

requirements_close ==
    <<"responsibilities:", "benefits:", "nice to have:", "preferred:">>

\* a section scan that never stops early
NeverBreak(collected) == FALSE

\* if len(responsibilities) >= 5: break, and the same test on requirements
BreakAtLimit(collected) == Len(collected) >= 5

\* the shortest line a section keeps has more than this many characters
MinLineLength == 10

\* The loop both parsers run over the lines: a line with an opening keyword
\* enters the section, a line with a closing keyword leaves it, a non-blank
\* line inside is kept when what is left after its bullet is longer than 10
\* characters, and the loop breaks at the limit.
RECURSIVE ScanSection(_, _, _, _, _)
ScanSection(lines, opening, closing, collected, in_section) ==
    IF lines = <<>> THEN collected
    ELSE LET line == Head(lines)
             line_lower == strip(lower(line))
         IN  IF AnyIn(opening, line_lower)
             THEN ScanSection(Tail(lines), opening, closing, collected, TRUE)
             ELSE IF AnyIn(closing, line_lower)
             THEN ScanSection(Tail(lines), opening, closing, collected, FALSE)
             ELSE IF in_section /\ strip(line) # ""
             THEN LET cleaned == clean_bullet(strip(line))
                  IN  IF cleaned # "" /\ Len(cleaned) > MinLineLength
                      THEN IF BreakAtLimit(Append(collected, cleaned))
                           THEN Append(collected, cleaned)
                           ELSE ScanSection(Tail(lines), opening, closing,
                                            Append(collected, cleaned), in_section)
                      ELSE ScanSection(Tail(lines), opening, closing,
                                       collected, in_section)
             ELSE ScanSection(Tail(lines), opening, closing, collected, in_section)

ResponsibilitiesPlaceholder == "See job posting for full responsibilities"

\* _parse_responsibilities
parse_responsibilities(description) ==
    LET responsibilities ==
            ScanSection(split(description, "\n"), responsibilities_open,
                        responsibilities_close, <<>>, FALSE)
    IN  IF responsibilities # <<>> THEN responsibilities
        ELSE <<ResponsibilitiesPlaceholder>>

----------------------------------------------------------------------------
(* The regular expressions of _extract_years_as_level.  A pattern is a list *)
(* of items; Match gives the positions a match of the items can end at.    *)

Lit(v) == [t |-> "lit", v |-> v]      \* the characters of v
Opt(v) == [t |-> "opt", v |-> v]      \* v?  (v one literal)
Alt(v) == [t |-> "alt", v |-> v]      \* (?:a|b) for the set v of literals
Ws == [t |-> "ws"]                    \* \s*
Num == [t |-> "num"]                  \* \d+

At(s, i, v) == i + Len(v) - 1 <= Len(s) /\ SubSeq(s, i, i + Len(v) - 1) = v

Step(item, s, from) ==
    IF item.t = "lit" THEN { i + Len(item.v) : i \in { p \in from : At(s, p, item.v) } }
    ELSE IF item.t = "opt"
    THEN from \cup { i + Len(item.v) : i \in { p \in from : At(s, p, item.v) } }
    ELSE IF item.t = "alt"
    THEN UNION { { i + Len(v) : i \in { p \in from : At(s, p, v) } } : v \in item.v }
    ELSE IF item.t = "ws"
    THEN UNION { i..Run(s, i, Whitespace) : i \in from }
    ELSE UNION { (i + 1)..Run(s, i, Digits) : i \in from }

RECURSIVE Match(_, _, _)
Match(items, s, from) ==
    IF items = <<>> \/ from = {} THEN from
    ELSE Match(Tail(items), s, Step(Head(items), s, from))

\* years? then what may follow it in the first two patterns
YearsOfExperience ==
    <<Ws, Lit("year"), Opt("s"), Ws, Opt("of"), Ws, Alt({ "experience", "exp" })>>

Years == <<Ws, Lit("year"), Opt("s")>>

\* the patterns, in the order of the list; before is what precedes the group
\* (\d+), from is the group and what follows it
patterns ==
    <<[before |-> <<>>, from |-> <<Num, Opt("+")>> \o YearsOfExperience],
      [before |-> <<>>, from |-> <<Num, Ws, Lit("-"), Ws, Num>> \o YearsOfExperience],
      [before |-> <<Lit("minimum"), Ws, Opt("of"), Ws>>, from |-> <<Num>> \o Years],
      [before |-> <<Lit("at"), Ws, Lit("least"), Ws>>, from |-> <<Num>> \o Years],
      [before |-> <<>>, from |-> <<Num>> \o Years \o <<Ws, Lit("minimum")>>],
      [before |-> <<Lit("require"), Opt("s"), Ws>>, from |-> <<Num>> \o Years],
      [before |-> <<>>, from |-> <<Num>> \o Years \o <<Ws, Lit("required")>>],
      [before |-> <<>>, from |-> <<Num>> \o Years \o <<Ws, Lit("preferred")>>]>>

\* where group 1 starts in the matches of pattern that start at i
GroupStarts(pattern, s, i) ==
    { d \in Match(pattern.before, s, { i }) : Match(pattern.from, s, { d }) # {} }

\* re.search(pattern, s): int(match.group(1)) of the leftmost match, as <<n>>,
\* or <<>> when nothing matches.  \d+ is greedy and what follows it in every
\* pattern cannot start with a digit, so the group is the whole run of digits.
search_group1(pattern, s) ==
    LET starts == { i \in 1..Len(s) : GroupStarts(pattern, s, i) # {} }
    IN  IF starts = {} THEN <<>>
        ELSE LET i == CHOOSE k \in starts : \A m \in starts : k <= m
                 d == CHOOSE k \in GroupStarts(pattern, s, i) : TRUE
             IN  <<int(SubSeq(s, d, Run(s, d, Digits) - 1))>>

entry_level_terms ==
    <<"entry level", "entry-level", "0-2 years", "fresh graduate", "new graduate">>

\* _extract_years_as_level: the first pattern of the list that matches decides
extract_years_as_level(text) ==
    LET text_lower == lower(text)
        matching == { p \in 1..Len(patterns) : search_group1(patterns[p], text_lower) # <<>> }
    IN  IF matching # {}
        THEN search_group1(patterns[CHOOSE p \in matching : \A q \in matching : p <= q],
                           text_lower)
        ELSE IF AnyIn(entry_level_terms, text_lower) THEN <<0>>
        ELSE NoLevel

\* lines 560-570: the experience level of a number of years
experience_level_of(years_num) ==
    IF years_num <= 2 THEN "entry"
    ELSE IF years_num <= 5 THEN "associate"
    ELSE IF years_num <= 8 THEN "mid-senior"
    ELSE IF years_num <= 12 THEN "director"
    ELSE "executive"

\* _parse_requirements_and_experience.  Lines 602 and 605 read the name
\* desc_lower, which neither the function nor the module binds: every call ends
\* in NameError at line 602, after the years, the level and the lines of the
\* requirements section were computed.  The record keeps those locals as they
\* are when the exception leaves the function.
parse_requirements_and_experience(description) ==
    LET years_num == extract_years_as_level(description)
        exp_level == IF years_num # NoLevel
                     THEN experience_level_of(years_num[1]) ELSE None
        requirements ==
            ScanSection(split(description, "\n"), requirements_open,
                        requirements_close,
                        IF years_num # NoLevel
                        THEN <<str(years_num[1]) \o "+ years of experience required">>
                        ELSE <<>>,
                        FALSE)
    IN  [raised |-> TRUE, requirements |-> requirements,
         exp_level |-> exp_level, years_num |-> years_num]

----------------------------------------------------------------------------
(* _extract_job_details_from_panel and _extract_jobs_with_details *)

\* list(set(l)): the distinct entries of l, in an order the hashing decides
Orders(l) ==
    LET S == { l[i] : i \in 1..Len(l) }
    IN  { o \in [1..Cardinality(S) -> S] : \A x \in S : \E i \in DOMAIN o : o[i] = x }

\* details = {}
EmptyDetails == [k \in {} |-> <<>>]

\* _extract_job_details_from_panel for the text the page gives as
\* full_description and the texts of its skill badges: the details dicts the
\* call can return.  With a text, line 443 stores the responsibilities and line
\* 446 raises; the handler at line 482 logs and the function returns what it
\* has, so lines 447-472 are never reached with a text.  Without a text only
\* the badges are read.
extract_job_details_from_panel(full_description, badge_skills) ==
    IF full_description # ""
    THEN { "responsibilities" :> parse_responsibilities(full_description) }
    ELSE IF badge_skills # <<>>
    THEN { "skills" :> Prefix(o, 15) : o \in Orders(badge_skills) }
    ELSE { EmptyDetails }

\* the job type a badge text names, lines 952-965
job_type_of(text_lower) ==
    IF In("full-time", text_lower) \/ In("full time", text_lower) THEN "full-time"
    ELSE IF In("part-time", text_lower) \/ In("part time", text_lower) THEN "part-time"
    ELSE IF In("contract", text_lower) THEN "contract"
    ELSE IF In("temporary", text_lower) \/ In("temp", text_lower) THEN "temporary"
    ELSE IF In("internship", text_lower) \/ In("intern", text_lower) THEN "internship"
    ELSE IF In("volunteer", text_lower) THEN "volunteer"
    ELSE None

\* the experience level a badge text names, lines 967-979
badge_exp_level(text_lower) ==
    IF In("entry", text_lower) \/ In("junior", text_lower) THEN "entry"
    ELSE IF In("associate", text_lower) THEN "associate"
    ELSE IF In("mid-senior", text_lower) \/ In("mid senior", text_lower) THEN "mid-senior"
    ELSE IF In("senior", text_lower) /\ ~In("mid", text_lower) THEN "mid-senior"
    ELSE IF In("director", text_lower) \/ In("lead", text_lower)
            \/ In("principal", text_lower) THEN "director"
    ELSE IF In("executive", text_lower) \/ In("vp", text_lower)
            \/ In("president", text_lower) THEN "executive"
    ELSE None

\* the experience level a title hints at, lines 984-995
title_exp_level(title_lower) ==
    IF In("senior", title_lower) \/ In("sr.", title_lower) \/ In("sr ", title_lower)
    THEN "mid-senior"
    ELSE IF In("junior", title_lower) \/ In("jr.", title_lower) \/ In("jr ", title_lower)
    THEN "entry"
    ELSE IF In("lead", title_lower) \/ In("principal", title_lower) THEN "director"
    ELSE IF In("director", title_lower) \/ In("manager", title_lower) THEN "director"
    ELSE IF In("vp", title_lower) \/ In("vice president", title_lower) THEN "executive"
    ELSE None

\* the loop over the badges, lines 944-981: the first badge that names a job
\* type and the first that names a level decide
RECURSIVE scan_metadata(_, _, _)
scan_metadata(items, job_type, exp_level) ==
    IF items = <<>> THEN [job_type |-> job_type, exp_level |-> exp_level]
    ELSE LET text_lower == strip(lower(Head(items)))
         IN  scan_metadata(Tail(items),
                 IF job_type = None THEN job_type_of(text_lower) ELSE job_type,
                 IF exp_level = None THEN badge_exp_level(text_lower) ELSE exp_level)

\* tech_skills of _extract_jobs_with_details, lines 1004-1012
card_tech_skills ==
    <<"Java", "Python", "JavaScript", "React", "Angular", "Spring", "Spring Boot",
      "SQL", "AWS", "Azure", "GCP", "Cloud", "Docker", "Kubernetes", "REST",
      "RESTful", "API", "Git", "Agile", "Node.js", "TypeScript", "MongoDB",
      "PostgreSQL", "MySQL", "Redis", "Jenkins", "CI/CD", "Microservices",
      "HTML", "CSS", "Vue", "Redux", "GraphQL", "Kafka", "RabbitMQ",
      "JPA", "Hibernate", "Maven", "Gradle", "JUnit", "Testing",
      "Full Stack", "Frontend", "Backend", "DevOps", "Scrum", "TDD">>

\* the shortest snippet of a card that is kept has more than this many characters
MinSnippetLength == 20

\* lines 684-1034: job_data as the card alone fills it.  i is the position of
\* the card on the page.
card_job_data(card, i) ==
    LET title == strip(card.title)
        desc_parts == SelectSeq([k \in 1..Len(card.snippets) |-> strip(card.snippets[k])],
                                LAMBDA text : Len(text) > MinSnippetLength)
        description == IF desc_parts # <<>> THEN join(" | ", Prefix(desc_parts, 3)) ELSE ""
        badges == scan_metadata(card.metadata, None, None)
        exp_level == IF badges.exp_level = None /\ title # ""
                     THEN title_exp_level(lower(title)) ELSE badges.exp_level
        combined_text == IF description # "" THEN lower(description \o " " \o title)
                         ELSE IF title # "" THEN lower(title) ELSE ""
        skills == SelectSeq(card_tech_skills, LAMBDA skill : In(lower(skill), combined_text))
        requirements ==
            (IF In("experience", combined_text)
             THEN <<"Professional experience required">> ELSE <<>>)
            \o (IF In("degree", combined_text) \/ In("bachelor", combined_text)
                THEN <<"Bachelor's degree or equivalent">> ELSE <<>>)
    IN  [job_id |-> IF card.job_id # "" THEN card.job_id ELSE "job_" \o str(i),
         title |-> IF title # "" THEN title ELSE "Job Title Not Available",
         url |-> card.url,
         company |-> IF card.company # "" THEN card.company ELSE "Unknown Company",
         location |-> "Location not specified",
         posted_date |-> "Recently",
         applicants_count |-> "",
         salary_range |-> "",
         description |-> IF description # "" THEN description
                         ELSE "See job posting for details",
         job_type |-> badges.job_type,
         experience_level |-> exp_level,
         skills |-> IF skills # <<>> THEN Prefix(skills, 10) ELSE <<"Not specified">>,
         requirements |-> IF requirements # <<>> THEN requirements
                          ELSE <<"See job posting for requirements">>,
         qualifications |-> <<>>,
         responsibilities |-> <<>>,
         level |-> NoLevel]

\* lines 1107-1127: job_data updated with the details of the panel; the
\* job_data dicts the update can leave
update_with_details(job_data, full_details) ==
    LET has(k) == k \in DOMAIN full_details
        with_text ==
            [job_data EXCEPT
                !.description =
                    IF has("description") /\ full_details["description"] # ""
                    THEN full_details["description"] ELSE @,
                !.responsibilities =
                    IF has("responsibilities") /\ full_details["responsibilities"] # <<>>
                    THEN full_details["responsibilities"] ELSE @,
                !.requirements =
                    IF has("requirements") /\ full_details["requirements"] # <<>>
                    THEN full_details["requirements"] ELSE @,
                !.experience_level =
                    IF has("experience_level") /\ full_details["experience_level"] # ""
                    THEN full_details["experience_level"] ELSE @,
                !.level =
                    IF has("level") THEN <<full_details["level"]>> ELSE @]
    IN  IF full_details = EmptyDetails THEN { job_data }
        ELSE IF has("skills") /\ full_details["skills"] # <<>>
        THEN IF job_data.skills # <<"Not specified">>
             THEN { [with_text EXCEPT !.skills = Prefix(all_skills, 15)] :
                      all_skills \in Orders(job_data.skills \o full_details["skills"]) }
             ELSE { [with_text EXCEPT !.skills = full_details["skills"]] }
        ELSE { with_text }

\* One card of _extract_jobs_with_details, lines 682-1139: the job_data dicts
\* that can be appended to jobs.  When the panel gave no responsibilities and
\* the card has a url, lines 1092-1103 load the posting's own page and read it
\* again; the posting gives the same text there, and a failed navigation keeps
\* the first details.
extract_job(card, i, full_description, badge_skills) ==
    UNION { update_with_details(card_job_data(card, i), full_details) :
              full_details \in extract_job_details_from_panel(full_description,
                                                              badge_skills) }

\* HttpUrl of pydantic: a scheme and a host
HttpUrl(url) == Len(url) > 8 /\ (Prefix(url, 7) = "http://" \/ Prefix(url, 8) = "https://")

\* JobListing(**job), line 327 of search_and_extract_jobs: whether pydantic
\* accepts the dict
JobListingAcceptsJob(job_data) == HttpUrl(job_data.url)

\* JobListing(**job) for a dict pydantic accepts; scraped_at, source and the
\* search keys are set at lines 319-323
JobListingOfJob(job_data) ==
    [JobListing(job_data.job_id, job_data.title, job_data.description,
                job_data.requirements)
       EXCEPT !.company = job_data.company,
              !.location = job_data.location,
              !.url = job_data.url,
              !.qualifications = job_data.qualifications,
              !.responsibilities = job_data.responsibilities,
              !.job_type = job_data.job_type,
              !.experience_level = job_data.experience_level,
              !.level = job_data.level,
              !.salary_range = job_data.salary_range,
              !.posted_date = job_data.posted_date,
              !.applicants_count = job_data.applicants_count,
              !.skills = job_data.skills]

----------------------------------------------------------------------------
(* Inputs of the extraction *)

\* the lines a short posting text is made of
PanelLines ==
    <<"Responsibilities:", "Requirements:", "- Build and run the data APIs",
      "* Code", "5+ years of experience with Python", "We are a friendly team">>

\* the sequences of at most n of the lines
RECURSIVE LineLists(_)
LineLists(n) ==
    IF n = 0 THEN { <<>> }
    ELSE LineLists(n - 1) \cup
         { Append(l, PanelLines[k]) :
             l \in { m \in LineLists(n - 1) : Len(m) = n - 1 },
             k \in 1..Len(PanelLines) }

\* a posting with n lines in each of its two sections, after a line that names
\* the years when years is given
SectionsText(years, n) ==
    join("\n", years
               \o <<"Responsibilities:">>
               \o [k \in 1..n |-> str(k) \o ". Build and run the data APIs"]
               \o <<"Requirements:">>
               \o [k \in 1..n |-> "- Experience with SQL and Python"])

\* a posting that asks for y years
YearsText(y) == str(y) \o " years of experience"

PanelTexts ==
    { join("\n", l) : l \in LineLists(MaxLines) }
    \cup { SectionsText(years, n) :
             years \in { <<>>, <<"At least 3 years in a similar role">> },
             n \in 0..MaxBullets }
    \cup { YearsText(y) : y \in 0..MaxYears }

\* what the page shows for a posting: the text of its description and the
\* texts of its skill badges
Panels ==
    { [text |-> t, badge_skills |-> <<>>] : t \in PanelTexts }
    \cup { [text |-> "", badge_skills |-> b] : b \in { <<"SQL">>, <<"SQL", "Docker">> } }

\* what a card of the result list shows
Cards ==
    { [job_id |-> "4242", title |-> title, url |-> url, company |-> "Tech Corp",
       metadata |-> <<"Full-time">>, snippets |-> <<>>] :
        title \in { "Software Engineer", "Senior Python Developer" },
        url \in { "", "https://www.linkedin.com/jobs/view/4242" } }

----------------------------------------------------------------------------
(* The extraction of one posting as a state machine *)

\* a card of the result list and the panel the page opens for it
ExtractInit ==
    /\ job_card \in Cards
    /\ detail_panel \in Panels
    /\ extracted_job = NoJobData
    /\ match = NoMatch
    /\ MatcherIdle
    /\ CacheInit
    /\ StoreInit
    /\ SheetIdle
    /\ RunIdle
    /\ LaterIdle

\* _extract_jobs_with_details for the card
ExtractJob ==
    /\ job_card # NoCard
    /\ extracted_job = NoJobData
    /\ extracted_job' \in extract_job(job_card, 0, detail_panel.text, detail_panel.badge_skills)
    /\ UNCHANGED <<job_card, detail_panel, match>>
    /\ UNCHANGED <<matcherVars, cacheVars, storeVars, sheetVars, runVars, laterVars>>

\* search_and_extract_jobs, lines 318-336, for a scraper whose initialize()
\* made a resume matcher and no Google Sheets service: the JobListing of the
\* dict is scored; when JobListing or the scoring raises the score is 0
ScoreJob ==
    /\ extracted_job # NoJobData
    /\ match = NoMatch
    /\ IF ~JobListingAcceptsJob(extracted_job)
       THEN match' = [raised |-> TRUE, calls |-> <<>>, resume_match_score |-> 0]
       ELSE \E has_groq \in BOOLEAN, g \in RunResponses, o \in RunResponses :
              \E scored \in { analyze_job_fit(JobListingOfJob(extracted_job), RunProfile,
                                              has_groq, g, o) } :
                  match' = IF scored.raised
                           THEN [raised |-> TRUE, calls |-> scored.calls,
                                 resume_match_score |-> 0]
                           ELSE [raised |-> FALSE, calls |-> scored.calls,
                                 resume_match_score |-> scored.analysis.overall_match_score,
                                 analysis |-> scored.analysis]
    /\ UNCHANGED <<job_card, detail_panel, extracted_job>>
    /\ UNCHANGED <<matcherVars, cacheVars, storeVars, sheetVars, runVars, laterVars>>

ExtractNext ==
    \/ ExtractJob
    \/ ScoreJob

SpecExtract == ExtractInit /\ [][ExtractNext]_vars

----------------------------------------------------------------------------
(* Claims about the extraction *)

\* C14: for every posting text the responsibilities and the requirements of
\* the extracted job have at most 5 entries each, and so have the list
\* _parse_responsibilities returns and the list
\* _parse_requirements_and_experience has built, years entry included.
C14_AtMostFiveEntries ==
    /\ extracted_job # NoJobData =>
         /\ Len(extracted_job.responsibilities) <= 5
         /\ Len(extracted_job.requirements) <= 5
    /\ detail_panel # NoPanel =>
         /\ Len(parse_responsibilities(detail_panel.text)) <= 5
         /\ Len(parse_requirements_and_experience(detail_panel.text).requirements) <= 5

\* a posting with more than 5 lines in each section and a years sentence was
\* extracted: 5 responsibilities, and 5 requirements of which the first is the
\* years entry
C14_Witness ==
    /\ extracted_job # NoJobData
    /\ detail_panel.text = SectionsText(<<"At least 3 years in a similar role">>, MaxBullets)
    /\ MaxBullets > 5
    /\ Len(extracted_job.responsibilities) = 5
    /\ Len(parse_requirements_and_experience(detail_panel.text).requirements) = 5
    /\ parse_requirements_and_experience(detail_panel.text).requirements[1]
         = "3+ years of experience required"

\* the level the specification gives for a number of years
LevelForYears(y) ==
    IF y \in 0..2 THEN "entry"
    ELSE IF y \in 3..5 THEN "associate"
    ELSE IF y \in 6..8 THEN "mid-senior"
    ELSE IF y \in 9..12 THEN "director"
    ELSE "executive"

\* C15: years 0..2 map to entry, 3..5 to associate, 6..8 to mid-senior, 9..12
\* to director, 13 and more to executive, and whenever the text of a posting
\* gives a number of years the extracted job carries the level mapped from it,
\* whatever level the badges or the title of the card suggest.
C15_YearsDecideLevel ==
    /\ \A y \in 0..MaxYears : experience_level_of(y) = LevelForYears(y)
    /\ \A y \in 0..(MaxYears - 1) :
         LET Rank(l) == CHOOSE r \in 1..5 :
                 <<"entry", "associate", "mid-senior", "director", "executive">>[r] = l
         IN  Rank(experience_level_of(y)) <= Rank(experience_level_of(y + 1))
    /\ (extracted_job # NoJobData /\ extract_years_as_level(detail_panel.text) # NoLevel) =>
         extracted_job.experience_level
            = experience_level_of(extract_years_as_level(detail_panel.text)[1])

\* no line of the text holds a keyword that opens or closes a section
NoSectionHeaders(text) ==
    ~AnyIn(responsibilities_open \o responsibilities_close
           \o requirements_open \o requirements_close, lower(text))

\* C16: a non-empty text without section headers gives a JobListing whose
\* responsibilities are the placeholder alone and whose skills are empty, and
\* the heuristic tier scores that listing between 0 and 100.
C16_NoSectionsEndToEnd ==
    (/\ extracted_job # NoJobData
     /\ detail_panel.text # ""
     /\ NoSectionHeaders(detail_panel.text)
     /\ JobListingAcceptsJob(extracted_job)) =>
        /\ JobListingOfJob(extracted_job).responsibilities = <<ResponsibilitiesPlaceholder>>
        /\ JobListingOfJob(extracted_job).skills = <<>>
        /\ (match # NoMatch /\ match.calls # <<>> /\ Last(match.calls) = "basic") =>
             /\ ~match.raised
             /\ ScoreInRange(match.resume_match_score)

----------------------------------------------------------------------------
(* Claims about the match score *)

\* an Optional[float] that is None or a percentage
AbsentOrPercentage(score) ==
    score = NoScore \/ (score[1] >= 0 /\ score[1] <= Pct(100))

\* C17: in every state of a search run the resume_match_score of the
\* JobListing the loop handled, of the JobListing given to add_job and of every
\* job of the primary store is absent or within [0, 100], whatever tier scored
\* it and whether add_job inserted or merged.
C17_ScoreAbsentOrInRange ==
    /\ processed.index > 0 => AbsentOrPercentage(processed.score)
    /\ last_add # NoAdd => AbsentOrPercentage(last_add.job_listing.resume_match_score)
    /\ \A k \in 1..Len(jobs) : AbsentOrPercentage(jobs[k].resume_match_score)

\* the second record of a run was scored by the heuristic tier after both
\* providers were refused, and add_job merged its score into the job the first
\* record had inserted with another score
C17_Witness ==
    /\ processed.index = 2
    /\ processed.calls = <<"groq", "openai", "basic">>
    /\ processed.store = "record"
    /\ last_add.before # NoJob
    /\ last_add.before.resume_match_score # NoScore
    /\ Len(jobs) = 1
    /\ jobs[1].resume_match_score = processed.score
    /\ jobs[1].resume_match_score # last_add.before.resume_match_score

\* a JSON answer with a score outside [0, 100]
ScoreOutside(response) ==
    /\ response.kind = "json"
    /\ \/ OutOfRange(response.overall_match_score)
       \/ OutOfRange(response.skills_match_score)
       \/ OutOfRange(response.experience_match_score)

\* C18: an AI tier whose answer has an overall, skills or experience score
\* outside [0, 100] has failed: the call goes on to the next tier of the chain
\* and the analysis returned is not that tier's; no analysis with a score
\* outside [0, 100] is returned.
C18_OutOfRangeFailsOver ==
    /\ \A i \in 1..Len(calls) :
         (calls[i] # "basic" /\ ScoreOutside(ResponseOf(calls[i]))) =>
            IF i = Len(calls)
            THEN pc = TierChain[i + 1]
            ELSE calls[i + 1] = TierChain[i + 1]
    /\ pc \in { "update", "returned" } =>
         /\ analysis.overall_match_score >= 0
         /\ analysis.overall_match_score <= Pct(100)
         /\ analysis.skills_match_score >= 0
         /\ analysis.skills_match_score <= Pct(100)
         /\ analysis.experience_match_score >= 0
         /\ analysis.experience_match_score <= Pct(100)

\* the primary tier answered with an overall score of 150, the secondary tier
\* with an experience score of -5, and the heuristic tier's analysis was returned
C18_Witness ==
    /\ pc = "returned"
    /\ calls = <<"groq", "openai", "basic">>
    /\ groq_response.kind = "json"
    /\ OutOfRange(groq_response.overall_match_score)
    /\ openai_response.kind = "json"
    /\ OutOfRange(openai_response.experience_match_score)
    /\ analysis.ai_fit_assessment = "Basic analysis only"

\* a JSON answer that lacks a field of the JobAnalysis shape
Incomplete(response) ==
    /\ response.kind = "json"
    /\ \/ response.overall_match_score = <<>>
       \/ response.skills_match_score = <<>>
       \/ response.experience_match_score = <<>>
       \/ response.technical_skills = <<>>
       \/ response.soft_skills = <<>>
       \/ response.ai_summary = <<>>

\* C19: an AI tier whose answer is JSON without the full JobAnalysis shape has
\* failed: the analysis that is returned is never the one built from such an
\* answer.
C19_IncompleteJsonFails ==
    (pc \in { "update", "returned" } /\ Last(calls) # "basic") =>
        ~Incomplete(ResponseOf(Last(calls)))

\* C20: a scoring pass of the pipeline leaves the result in the analysis cache
\* under (job_id, "resume_match"), and a record whose entry is in the cache and
\* not expired is not scored by any tier.
C20_CacheAroundScoring ==
    (processed.index > 0 /\ processed.scored) =>
        /\ processed.calls # <<>> =>
             FilterBy(analysis_cache, processed.job_id, "resume_match") # {}
        /\ (\E c \in FilterBy(analysis_cache, processed.job_id, "resume_match") :
               CachedResult(analysis_cache, c, now) # NoResult) =>
             processed.calls = <<>>

----------------------------------------------------------------------------
(* database/db_manager.py: the application-tracking state and the cleanup *)

HoursPerDay == 24

\* the days of 2026 before the first day of a month
DaysBeforeMonth == <<0, 31, 59, 90, 120, 151, 181, 212, 243, 273, 304, 334>>

\* a datetime on the clock of the model: the whole hours since 2026-01-01 00:00
Hours(dt) ==
    ((dt.year - 2026) * 365 + DaysBeforeMonth[dt.month] + dt.day - 1) * HoursPerDay
    + dt.hour

\* add_job, lines 35-87: a lookup that raises is caught at line 84, rolled back
\* and answered with None (0); existing is what the lookup found otherwise
add_job(rows, job_listing, utcnow, existing, fault) ==
    IF fault = "query"
    THEN [rows |-> rows, result |-> 0]
    ELSE CommitJob(rows, existing, RowOf(rows, existing), job_listing, utcnow,
                   fault # "commit")

\* update_job_status: the rows and the boolean it returns
update_job_status(rows, job_id, status, utcnow, commit_ok) ==
    LET found == FilterByJobId(rows, job_id)
    IN  IF found = {} \/ ~commit_ok
        THEN [rows |-> rows, result |-> FALSE]
        ELSE LET k == CHOOSE i \in found : TRUE
             IN  [rows |-> [rows EXCEPT
                               ![k].status = status,
                               ![k].applied = IF status = "applied" THEN TRUE ELSE @,
                               ![k].applied_date = IF status = "applied" THEN utcnow ELSE @],
                  result |-> TRUE]

\* PUT /api/jobs/{job_id}, lines 287-311: the status, then the notes when the
\* request has some
put_job(rows, job_id, status, notes, utcnow, commit_ok) ==
    LET updated == update_job_status(rows, job_id, status, utcnow, commit_ok)
    IN  IF ~updated.result \/ notes = None \/ notes = "" THEN updated
        ELSE LET k == CHOOSE i \in FilterByJobId(rows, job_id) : TRUE
             IN  [rows |-> [updated.rows EXCEPT ![k].notes = notes], result |-> TRUE]

\* mark_job_viewed
mark_job_viewed(rows, job_id) ==
    [i \in 1..Len(rows) |->
        IF rows[i].job_id = job_id THEN [rows[i] EXCEPT !.viewed = TRUE] ELSE rows[i]]

\* a cleanup that deletes every old job
OldJob(j, cutoff_date) == Hours(j.scraped_at) < cutoff_date

\* the filter of the first DELETE of cleanup_old_data, lines 423-429
OldUnappliedJob(j, cutoff_date) ==
    /\ Hours(j.scraped_at) < cutoff_date
    /\ j.applied = FALSE
    /\ j.status # "saved"

\* a sweep that deletes every entry of the cache
AnyEntry(cache, utcnow) == TRUE

\* the filter of the second DELETE, lines 432-434
ExpiredEntry(cache, utcnow) == cache.expires_at < utcnow

\* cleanup_old_data(db, days): both DELETE statements and the commit; a commit
\* that raises is rolled back and the call returns 0
cleanup_old_data(job_rows, cache_rows, utcnow, days, commit_ok) ==
    LET cutoff_date == utcnow - days * HoursPerDay
        old == SelectSeq(job_rows, LAMBDA j : OldUnappliedJob(j, cutoff_date))
        expired == SelectSeq(cache_rows, LAMBDA c : ExpiredEntry(c, utcnow))
    IN  IF ~commit_ok
        THEN [jobs |-> job_rows, cache |-> cache_rows, deleted |-> 0,
              old |-> <<>>, expired |-> <<>>, cutoff_date |-> cutoff_date]
        ELSE [jobs |-> SelectSeq(job_rows, LAMBDA j : ~OldUnappliedJob(j, cutoff_date)),
              cache |-> SelectSeq(cache_rows, LAMBDA c : ~ExpiredEntry(c, utcnow)),
              deleted |-> Len(old),
              old |-> old, expired |-> expired, cutoff_date |-> cutoff_date]

----------------------------------------------------------------------------
(* Inputs of the tracking machine *)

ResponsibilityLists == << <<"Build APIs">>, <<"Run the data platform">> >>
BenefitLists == << <<"Health insurance">>, <<"Remote work">> >>
Urls == <<"https://www.linkedin.com/jobs/view/4242",
          "https://www.linkedin.com/jobs/view/4242?refId=2">>
JobTypes == <<"full-time", "contract">>
ExperienceLevels == <<"entry", "associate">>
PostedDates == <<"1 day ago", "2 weeks ago">>

\* a fully scraped JobListing of scrape v with the given score and scrape time
TrackedListing(job_id, v, score, scraped_at) ==
    [ScrapedListing(job_id, v, "given", TRUE)
        EXCEPT !.responsibilities = ResponsibilityLists[v],
               !.benefits = BenefitLists[v],
               !.url = Urls[v],
               !.job_type = JobTypes[v],
               !.experience_level = ExperienceLevels[v],
               !.posted_date = PostedDates[v],
               !.resume_match_score = score,
               !.scraped_at = scraped_at]

\* add_job arguments: a posting scraped in January with a score of 85, the
\* same posting scraped again in November with a score of 0 and with no score
TrackListings ==
    { TrackedListing("4242", 1, <<Pct(85)>>, ScrapeTimes[1]),
      TrackedListing("4242", 2, <<0>>, ScrapeTimes[2]),
      TrackedListing("4242", 2, NoScore, ScrapeTimes[2]) }

\* what can go wrong inside add_job
AddFaults == { "none", "query", "commit" }

\* status values of PUT /api/jobs/{job_id}; the request takes any string
Statuses == { "applied", "saved" }

\* notes of the request
Notes == { None, "Phone screen on Friday" }

\* days of POST /api/cleanup: Query(30, ge=7, le=365)
CleanupDays == { 7, 30 }

\* the clock of the tracking machine: 2026-11-02 18:00
TrackNow == Hours(Datetime(2026, 11, 2, 18, 0, 0))

----------------------------------------------------------------------------
(* The jobs table under add_job, PUT /api/jobs, GET /api/jobs/{job_id} and *)
(* POST /api/cleanup, every request a step.                                *)

TrackInit ==
    /\ jobs = <<>>
    /\ runs = [r \in Runs |-> IdleRun(0, -1, FALSE)]
    /\ last_add = NoAdd
    /\ added = {}
    /\ analysis_cache = <<>>
    /\ now = TrackNow
    /\ callers = [c \in Callers |-> IdleCaller(0)]
    /\ last_get = NoGet
    /\ last_write = [k \in CacheKeys |-> NoWrite]
    /\ last_sweep = NoSweep
    /\ posting_text = ""
    /\ parse_result = NoParse
    /\ profile_task = NoTask
    /\ MatcherIdle /\ SheetIdle /\ RunIdle /\ ExtractIdle

\* the row a table holds for a job_id, NoJob when it holds none
StoredIn(rows, job_id) ==
    IF FilterByJobId(rows, job_id) = {} THEN NoJob
    ELSE rows[CHOOSE i \in FilterByJobId(rows, job_id) : TRUE]

\* add_job; last_add keeps the row of the job_id before and after the call
TrackAddJob ==
    /\ \E job_listing \in TrackListings, fault \in AddFaults :
         \E existing \in First(FilterByJobId(jobs, job_listing.job_id)) :
           \E done \in { add_job(jobs, job_listing, now, existing, fault) } :
              /\ jobs' = done.rows
              /\ last_add' = [job_listing |-> job_listing,
                              before |-> RowOf(jobs, existing),
                              after |-> StoredIn(done.rows, job_listing.job_id),
                              result |-> done.result,
                              fault |-> fault]
              /\ added' = IF done.result # 0
                          THEN added \cup { job_listing.job_id }
                          ELSE added
    /\ UNCHANGED <<runs, last_sweep>>
    /\ UNCHANGED <<posting_text, parse_result, profile_task>>
    /\ UNCHANGED <<matcherVars, cacheVars, sheetVars, runVars, extractVars>>

\* PUT /api/jobs/{job_id}
PutJob ==
    /\ \E job_id \in JobIds, status \in Statuses, notes \in Notes, commit_ok \in BOOLEAN :
         \E done \in { put_job(jobs, job_id, status, notes, now, commit_ok) } :
            jobs' = done.rows
    /\ UNCHANGED <<runs, last_add, added, last_sweep>>
    /\ UNCHANGED <<posting_text, parse_result, profile_task>>
    /\ UNCHANGED <<matcherVars, cacheVars, sheetVars, runVars, extractVars>>

\* GET /api/jobs/{job_id}, lines 273-284
GetJob ==
    /\ \E job_id \in JobIds :
         /\ FilterByJobId(jobs, job_id) # {}
         /\ jobs' = mark_job_viewed(jobs, job_id)
    /\ UNCHANGED <<runs, last_add, added, last_sweep>>
    /\ UNCHANGED <<posting_text, parse_result, profile_task>>
    /\ UNCHANGED <<matcherVars, cacheVars, sheetVars, runVars, extractVars>>

\* POST /api/cleanup
CleanupOldData ==
    /\ \E days \in CleanupDays, commit_ok \in BOOLEAN :
         \E done \in { cleanup_old_data(jobs, analysis_cache, now, days, commit_ok) } :
            /\ jobs' = done.jobs
            /\ analysis_cache' = done.cache
            /\ added' = { done.jobs[i].job_id : i \in 1..Len(done.jobs) }
            /\ last_sweep' = [at |-> now, days |-> days, deleted |-> done.deleted,
                              expired |-> done.expired]
    /\ UNCHANGED <<runs, last_add>>
    /\ UNCHANGED <<now, callers, last_get, last_write>>
    /\ UNCHANGED <<posting_text, parse_result, profile_task>>
    /\ UNCHANGED <<matcherVars, sheetVars, runVars, extractVars>>

TrackNext ==
    \/ TrackAddJob
    \/ PutJob
    \/ GetJob
    \/ CleanupOldData

SpecTracking == TrackInit /\ [][TrackNext]_vars

----------------------------------------------------------------------------
(* Claims about merges, status updates and the cleanup *)

\* an add_job call that found a record of the job_id and returned it
Merged == last_add # NoAdd /\ last_add.before # NoJob /\ last_add.result # 0

OtherTextFields == { "url", "job_type", "experience_level", "posted_date" }
OtherListFields == { "responsibilities", "benefits" }

\* C22: after a merge, each of url, job_type, experience_level, posted_date,
\* responsibilities and benefits is the incoming value when that is non-empty
\* and the stored value otherwise.
C22_MergeOverwritesOtherFields ==
    Merged =>
        /\ \A f \in OtherTextFields :
             last_add.after[f] = IF EmptyText(last_add.job_listing[f])
                                 THEN last_add.before[f]
                                 ELSE last_add.job_listing[f]
        /\ \A f \in OtherListFields :
             last_add.after[f] = IF last_add.job_listing[f] = <<>>
                                 THEN last_add.before[f]
                                 ELSE last_add.job_listing[f]

\* C23: when the lookup of add_job raises for a job_id the table has no record
\* of, the record is in the table when the call has returned.
C23_LookupFailureKeepsRecord ==
    (last_add # NoAdd /\ last_add.fault = "query" /\ last_add.before = NoJob) =>
        /\ last_add.after # NoJob
        /\ last_add.result # 0

\* C24: after a merge the stored score is the incoming score when one is
\* present, 0 included, and the score stored before when none is.
C24_PresentScoreOverwrites ==
    Merged =>
        last_add.after.resume_match_score =
            IF last_add.job_listing.resume_match_score = NoScore
            THEN last_add.before.resume_match_score
            ELSE last_add.job_listing.resume_match_score

TrackingFields ==
    { "status", "notes", "tags", "viewed", "applied", "applied_date", "scraped_at" }

\* C28: a merge leaves status, notes, tags, viewed, applied, applied_date and
\* scraped_at of the stored record as they were before the call.
C28_MergeKeepsTracking ==
    Merged => \A f \in TrackingFields : last_add.after[f] = last_add.before[f]

\* a posting marked applied, annotated and viewed was scraped again: the merge
\* took the new title and left the tracking state
C28_Witness ==
    /\ Merged
    /\ last_add.before.status = "applied"
    /\ last_add.before.applied
    /\ last_add.before.notes # None
    /\ last_add.before.viewed
    /\ last_add.job_listing.status = "new"
    /\ last_add.job_listing.scraped_at # last_add.before.scraped_at
    /\ last_add.job_listing.title # last_add.before.title
    /\ last_add.after.title = last_add.job_listing.title
    /\ last_add.after.status = "applied"

\* a record the cleanup must keep
Protected(j) == j.applied \/ j.status = "saved"

\* C29: in every step, a job that is marked applied or has status "saved" is
\* still in the table after the step, whatever its age and whatever
\* cleanup_old_data deleted, and a job marked applied is still marked applied.
C29_AppliedAndSavedKept ==
    [][\A i \in 1..Len(jobs) :
          Protected(jobs[i]) =>
             \E k \in 1..Len(jobs') :
                /\ jobs'[k].job_id = jobs[i].job_id
                /\ jobs[i].applied => jobs'[k].applied]_vars

\* a cleanup deleted nothing although the table holds a job older than its
\* cutoff date: the job was marked applied and its status then set to "saved"
C29_Witness ==
    /\ last_sweep # NoSweep
    /\ last_sweep.deleted = 0
    /\ Len(jobs) = 1
    /\ Hours(jobs[1].scraped_at) < last_sweep.at - last_sweep.days * HoursPerDay
    /\ jobs[1].applied
    /\ jobs[1].status = "saved"

----------------------------------------------------------------------------
(* The analysis cache with the cleanup: two callers of cache_analysis, each *)
(* with its own session, and POST /api/cleanup.  A caller holds the row its *)
(* query loaded by its id; its commit emits UPDATE ... WHERE id = that id.  *)

\* where the row with the id is in the table, 0 when no row has it
IndexOfId(rows, id) ==
    IF \E i \in 1..Len(rows) : rows[i].id = id
    THEN CHOOSE i \in 1..Len(rows) : rows[i].id = id
    ELSE 0

\* cache_analysis, lines 347-366, for the row the query loaded: the UPDATE of a
\* row that is no longer in the table matches nothing, the flush raises
\* StaleDataError, the session is rolled back and the call returns False
FlushCacheWrite(rows, existing_id, job_id, analysis_type, result, expires_at, utcnow, commit_ok) ==
    IF ~commit_ok \/ (existing_id # 0 /\ IndexOfId(rows, existing_id) = 0)
    THEN [rows |-> rows, result |-> FALSE]
    ELSE [rows |-> WriteCache(rows, IndexOfId(rows, existing_id), job_id,
                              analysis_type, result, expires_at, utcnow),
          result |-> TRUE]

\* the table holds one entry, written when the clock started with a ttl of
\* one clock step
SweepInit ==
    /\ \E result \in Results :
         /\ analysis_cache = <<AnalysisCache(1, "4242", "resume_match", result, 0,
                                             ExpiresAt(0, TickHours))>>
         /\ last_write = [k \in CacheKeys |->
                            IF k = <<"4242", "resume_match">>
                            THEN Written(result, 0, TickHours) ELSE NoWrite]
    /\ now = 0
    /\ callers = [c \in Callers |-> IdleCaller(0)]
    /\ last_get = NoGet
    /\ MatcherIdle /\ StoreInit /\ SheetIdle /\ RunIdle /\ ExtractIdle /\ LaterIdle

\* cache_analysis, lines 338-345, by caller c
SweepCacheQuery(c) ==
    /\ callers[c].pc = "idle"
    /\ callers[c].made < MaxCallsPerCaller
    /\ \E key \in CacheKeys, result \in Results, expires_hours \in ExpiresHours :
         \E existing \in First(FilterBy(analysis_cache, key[1], key[2])) :
            callers' = [callers EXCEPT ![c] =
                          [pc |-> "queried", made |-> callers[c].made + 1,
                           job_id |-> key[1], analysis_type |-> key[2],
                           result |-> result, expires_hours |-> expires_hours,
                           existing |-> IF existing = 0 THEN 0
                                        ELSE analysis_cache[existing].id,
                           at |-> now,
                           expires_at |-> ExpiresAt(now, expires_hours)]]
    /\ UNCHANGED <<analysis_cache, now, last_get, last_write>>
    /\ UNCHANGED <<matcherVars, storeVars, sheetVars, runVars, extractVars, laterVars>>

\* cache_analysis, lines 347-366, by caller c
SweepCacheCommit(c) ==
    /\ callers[c].pc = "queried"
    /\ \E commit_ok \in BOOLEAN :
         \E done \in { FlushCacheWrite(analysis_cache, callers[c].existing,
                                       callers[c].job_id, callers[c].analysis_type,
                                       callers[c].result, callers[c].expires_at,
                                       callers[c].at, commit_ok) } :
             /\ analysis_cache' = done.rows
             /\ last_write' =
                  IF done.result
                  THEN [last_write EXCEPT
                          ![<<callers[c].job_id, callers[c].analysis_type>>] =
                            Written(callers[c].result, callers[c].at,
                                    callers[c].expires_hours)]
                  ELSE last_write
             /\ callers' = [callers EXCEPT ![c] =
                              [pc |-> "idle", made |-> callers[c].made,
                               returned |-> done.result]]
    /\ UNCHANGED <<now, last_get>>
    /\ UNCHANGED <<matcherVars, storeVars, sheetVars, runVars, extractVars, laterVars>>

SweepNext ==
    \/ \E c \in Callers : SweepCacheQuery(c)
    \/ \E c \in Callers : SweepCacheCommit(c)
    \/ CleanupOldData
    \/ Tick

SpecSweep == SweepInit /\ [][SweepNext]_vars

\* C21: when every cache_analysis call has returned, a key whose last
\* successful write has its expiry time still ahead holds an entry with that
\* write's value and expiry time, whatever cleanup_old_data did in between; and
\* the cleanup deleted only entries whose expires_at was before its own clock.
C21_RefreshSurvivesSweep ==
    /\ (\A c \in Callers : callers[c].pc = "idle") =>
         \A key \in CacheKeys :
            (last_write[key] # NoWrite /\ AskedExpiry(last_write[key]) > now) =>
               \E i \in FilterBy(analysis_cache, key[1], key[2]) :
                  /\ analysis_cache[i].analysis_result = last_write[key].result
                  /\ analysis_cache[i].expires_at = AskedExpiry(last_write[key])
    /\ last_sweep # NoSweep =>
         \A i \in 1..Len(last_sweep.expired) :
            last_sweep.expired[i].expires_at < last_sweep.at

----------------------------------------------------------------------------
(* Inputs of the parsers: texts built from the phrasings the patterns of   *)
(* _extract_years_as_level name.                                           *)

\* the numbers of the patterns with one number, in the order of the list
SinglePatterns == { 1, 3, 4, 5, 6, 7, 8 }

\* a text that states n years in the phrasing of pattern p
YearsPhrase(p, n) ==
    IF p = 1 THEN str(n) \o "+ years of experience"
    ELSE IF p = 3 THEN "Minimum of " \o str(n) \o " years"
    ELSE IF p = 4 THEN "At least " \o str(n) \o " years"
    ELSE IF p = 5 THEN str(n) \o " years minimum"
    ELSE IF p = 6 THEN "Requires " \o str(n) \o " years"
    ELSE IF p = 7 THEN str(n) \o " years required"
    ELSE str(n) \o " years preferred"

\* a text that states a range of years, pattern 2
RangePhrase(n, m, spaced) ==
    str(n) \o (IF spaced THEN " - " ELSE "-") \o str(m) \o " years of experience"

\* the years the texts state
PhraseYears == { 2, 7 }
YearRanges == { <<3, 5>>, <<0, 2>> }

\* the patterns of the texts with two statements
PairPatterns == { 1, 4, 7 }

\* 2 years in the phrasing of pattern p, then 7 years in the phrasing of q
PairText(p, q) == YearsPhrase(p, 2) \o ". " \o YearsPhrase(q, 7)

EntryTexts ==
    { "This is an entry level role", "An entry-level position",
      "Fresh graduate welcome", "For a new graduate" }

PlainTexts == { "We are a friendly team", "Many years of success" }

\* lines that hold a degree marker
DegreeLines ==
    { "Bachelor's degree holders welcome", "Master's degree holders welcome",
      "Bachelor's or Master's degree in a related field" }

RequirementsSection == <<"Requirements:", "- Experience with SQL and Python">>

\* a posting with a degree line, a statement of n years and the lines of a
\* requirements section
DegreeText(degree, n, section) ==
    join("\n", <<degree, YearsPhrase(1, n)>> \o section)

DegreeYears == 5

DegreeTexts ==
    { DegreeText(degree, DegreeYears, section) :
        degree \in DegreeLines, section \in { <<>>, RequirementsSection } }
    \cup { "5+ years experience required. Bachelor's degree required" }

ParseTexts ==
    { YearsPhrase(p, n) : p \in SinglePatterns, n \in PhraseYears }
    \cup { PairText(p, q) : p \in PairPatterns, q \in PairPatterns }
    \cup { RangePhrase(r[1], r[2], spaced) : r \in YearRanges, spaced \in BOOLEAN }
    \cup EntryTexts \cup PlainTexts \cup DegreeTexts

----------------------------------------------------------------------------
(* The parsers on one text: a call of _extract_years_as_level and a call of *)
(* _extract_job_details_from_panel for a panel that shows the text.         *)

ParseInit ==
    /\ posting_text \in ParseTexts
    /\ parse_result = [years_called |-> FALSE, years |-> NoLevel,
                       details_called |-> FALSE, details |-> EmptyDetails]
    /\ last_sweep = NoSweep
    /\ profile_task = NoTask
    /\ MatcherIdle /\ CacheInit /\ StoreInit /\ SheetIdle /\ RunIdle /\ ExtractIdle

\* _extract_years_as_level(text)
ExtractYearsAsLevel ==
    /\ parse_result # NoParse
    /\ ~parse_result.years_called
    /\ parse_result' = [parse_result EXCEPT
                           !.years_called = TRUE,
                           !.years = extract_years_as_level(posting_text)]
    /\ UNCHANGED <<posting_text, last_sweep, profile_task>>
    /\ UNCHANGED <<matcherVars, cacheVars, storeVars, sheetVars, runVars, extractVars>>

\* _extract_job_details_from_panel for the text, no skill badges on the page
ExtractJobDetailsFromPanel ==
    /\ parse_result # NoParse
    /\ ~parse_result.details_called
    /\ \E details \in extract_job_details_from_panel(posting_text, <<>>) :
         parse_result' = [parse_result EXCEPT
                             !.details_called = TRUE,
                             !.details = details]
    /\ UNCHANGED <<posting_text, last_sweep, profile_task>>
    /\ UNCHANGED <<matcherVars, cacheVars, storeVars, sheetVars, runVars, extractVars>>

ParseNext ==
    \/ ExtractYearsAsLevel
    \/ ExtractJobDetailsFromPanel

SpecParse == ParseInit /\ [][ParseNext]_vars

----------------------------------------------------------------------------
(* Claims about the parsers *)

\* the first pattern of the list decides, wherever its match is in the text
C25_PatternOrder ==
    parse_result.years_called =>
        /\ \A p \in SinglePatterns, n \in PhraseYears :
             posting_text = YearsPhrase(p, n) => parse_result.years = <<n>>
        /\ \A p \in PairPatterns, q \in PairPatterns :
             (p # q /\ posting_text = PairText(p, q)) =>
                 parse_result.years = <<IF p < q THEN 2 ELSE 7>>

\* without a number: 0 for an entry-level phrase, None otherwise
C25_NoNumber ==
    parse_result.years_called =>
        /\ posting_text \in EntryTexts => parse_result.years = <<0>>
        /\ posting_text \in PlainTexts => parse_result.years = NoLevel

\* C25: _extract_years_as_level returns the number of the first pattern of the
\* list that matches anywhere in the text, wherever in the text the match is;
\* the lower bound N of a range "N - M years of experience"; 0 when no pattern
\* matches and the text has an entry-level phrase; None otherwise.
C25_YearsExtraction ==
    /\ C25_PatternOrder
    /\ C25_NoNumber
    /\ parse_result.years_called =>
         \A r \in YearRanges, spaced \in BOOLEAN :
            posting_text = RangePhrase(r[1], r[2], spaced) =>
                parse_result.years = <<r[1]>>

\* the degree entries the text calls for, bachelor's first
DegreeEntries(text) ==
    (IF In("bachelor", lower(text)) THEN <<"Bachelor's degree required">> ELSE <<>>)
    \o (IF In("master", lower(text)) THEN <<"Master's degree preferred">> ELSE <<>>)

\* C26: for a text that states N years and has a degree marker outside its
\* requirements section, the details of the panel carry level N, the
\* experience_level mapped from N, and requirements that hold the entry
\* "N+ years of experience required" and end with the degree entries.
C26_YearsAndDegreeEntries ==
    (parse_result.details_called /\ posting_text \in DegreeTexts) =>
        LET details == parse_result.details
            n == DegreeYears
            degrees == DegreeEntries(posting_text)
        IN  /\ { "level", "experience_level", "requirements" } \subseteq DOMAIN details
            /\ details["level"] = n
            /\ details["experience_level"] = LevelForYears(n)
            /\ InList(str(n) \o "+ years of experience required", details["requirements"])
            /\ Len(details["requirements"]) >= Len(degrees)
            /\ SubSeq(details["requirements"],
                      Len(details["requirements"]) - Len(degrees) + 1,
                      Len(details["requirements"])) = degrees

----------------------------------------------------------------------------
(* The background search run and the profile endpoint on the event loop of *)
(* the application. Both are coroutines of one loop: a handler runs only   *)
(* while the search run is suspended at an await that waits for I/O.       *)

\* the resume texts a profile update can carry; "" is a request without one
ResumeTexts == { "", "Data engineer, SQL and Python", "Backend developer, Go" }

\* the profile of the service that startup_event builds
StartupProfile == "resume.txt"

\* every await under analyze_job_fit ends in a blocking call of a
\* synchronous client, so the scoring of a record never yields to the loop
AlwaysSuspends == TRUE
AnalyzeJobFitSuspends == FALSE

\* the search run is at a point where the loop can run another handler
Suspended ==
    \/ profile_task.pc \in { "idle", "scraping", "done" }
    \/ profile_task.pc = "scoring" /\ AnalyzeJobFitSuspends

ProfileInit ==
    /\ profile_task \in
         [pc : { "idle" },
          service : { None, StartupProfile },
          enable_matching : BOOLEAN,
          jobs : { 0 }, next : { 1 },
          scored_with : { <<>> },
          updated : { FALSE }]
    /\ posting_text = ""
    /\ parse_result = NoParse
    /\ last_sweep = NoSweep
    /\ MatcherIdle /\ CacheInit /\ StoreInit /\ SheetIdle /\ RunIdle /\ ExtractIdle

ProfileFrame ==
    /\ UNCHANGED <<posting_text, parse_result, last_sweep>>
    /\ UNCHANGED <<matcherVars, cacheVars, storeVars, sheetVars, runVars, extractVars>>

\* perform_job_search up to the await of scraper.search_jobs
StartSearch ==
    /\ profile_task.pc = "idle"
    /\ profile_task' = [profile_task EXCEPT !.pc = "scraping"]
    /\ ProfileFrame

\* scraper.search_jobs returns its records, or raises and the run ends
SearchJobsReturns ==
    /\ profile_task.pc = "scraping"
    /\ \E n \in 0..MaxRecords, raised \in BOOLEAN :
         profile_task' = [profile_task EXCEPT
                             !.pc = IF raised THEN "done" ELSE "scoring",
                             !.jobs = IF raised THEN 0 ELSE n]
    /\ ProfileFrame

\* one pass of the loop over the records: the record is scored by the service
\* the global names now, unless matching is off, there is no service, or the
\* processing of the record raises
ProcessJob ==
    /\ profile_task.pc = "scoring"
    /\ profile_task.next <= profile_task.jobs
    /\ \E raised \in BOOLEAN :
         profile_task' = [profile_task EXCEPT
             !.next = @ + 1,
             !.scored_with =
                 IF profile_task.enable_matching /\ profile_task.service # None
                    /\ ~raised
                 THEN Append(@, profile_task.service)
                 ELSE @]
    /\ ProfileFrame

\* the loop is over: the run is marked completed
FinishSearch ==
    /\ profile_task.pc = "scoring"
    /\ profile_task.next > profile_task.jobs
    /\ profile_task' = [profile_task EXCEPT !.pc = "done"]
    /\ ProfileFrame

\* PUT /api/profile: a new service for the resume text of the request
UpdateProfile ==
    /\ profile_task # NoTask
    /\ Suspended
    /\ \E resume_text \in ResumeTexts, success \in BOOLEAN :
         profile_task' = [profile_task EXCEPT
             !.service = IF success /\ resume_text # "" THEN resume_text ELSE @,
             !.updated = @ \/ (/\ success /\ resume_text # ""
                               /\ resume_text # profile_task.service
                               /\ profile_task.pc \in { "scraping", "scoring" })]
    /\ ProfileFrame

ProfileNext ==
    \/ StartSearch
    \/ SearchJobsReturns
    \/ ProcessJob
    \/ FinishSearch
    \/ UpdateProfile

SpecProfile == ProfileInit /\ [][ProfileNext]_vars

\* C27: every record of one search run is scored against the same resume
\* profile, also when a profile update is handled while the run is in progress.
C27_OneProfilePerRun ==
    \A i \in 1..Len(profile_task.scored_with), k \in 1..Len(profile_task.scored_with) :
        profile_task.scored_with[i] = profile_task.scored_with[k]

\* a finished run with two scored records during which the profile was replaced
C27_Witness ==
    /\ profile_task.pc = "done"
    /\ profile_task.updated
    /\ Len(profile_task.scored_with) >= 2
    /\ profile_task.scored_with[1] # StartupProfile

----------------------------------------------------------------------------
(* Claims about the end of a search run *)

\* the run has a terminal status when perform_job_search is over: "failed"
\* when the scraper raised, "completed" otherwise
C30_TerminalStatus ==
    search.pc = "done" =>
        search_run.status = (IF search.scraped THEN "completed" ELSE "failed")

\* jobs_matched never exceeds jobs_scraped
C30_MatchedWithinScraped == search_run.jobs_matched <= search_run.jobs_scraped

\* C30: when perform_job_search is over the SearchRun row has left "running"
\* for one terminal status, "failed" when the scraper raised and "completed"
\* otherwise, whatever records failed; completed_at is set exactly when the
\* status is "completed"; jobs_matched never exceeds jobs_scraped.
C30_RunEndsTerminal ==
    /\ C30_TerminalStatus
    /\ (search_run.completed_at # <<>>) <=> (search_run.status = "completed")
    /\ C30_MatchedWithinScraped

====
